---- MODULE Spec2Model ----
(***************************************************************************)
(* Model of the shared cache / coordination layer of shop_core:            *)
(*   RedisService  (redis.service.ts): key-value primitives, fixed-window  *)
(*                  rate limiter, distributed lock                         *)
(*   CacheService  (cache.service.ts): tenant prefixes, tags, invalidation *)
(*                                                                         *)
(* The Redis keyspace is one function from keys to entries.  Keys are      *)
(* sequences of tokens (a token stands for a piece of a string, so that    *)
(* concatenation is \o and a prefix test is a test on sequences).  Time is *)
(* kept as remaining time-to-live, in seconds: an entry carries the        *)
(* seconds it has left (what the TTL command returns), and the passing of  *)
(* d seconds lowers every armed ttl by d and removes the keys that reach   *)
(* zero.  Every await of the services is one atomic step on the keyspace.  *)
(***************************************************************************)
EXTENDS Integers, Sequences, FiniteSets, TLC

VARIABLES
    redis,      \* the keyspace: key -> entry, present keys only
    ev,         \* label of the last step: the call (or store command) it completed
    lockHeld,   \* per caller and lock name: -1 not acquired (or released), else the
                \* seconds left of the ttl of the caller's own successful acquireLock
    rateLimit,  \* the limit the callers pass to checkRateLimit
    rateWindow, \* the window (seconds) the callers pass to checkRateLimit
    rl,         \* per caller: where its checkRateLimit call stands, and its locals
    win,        \* per rate key: the fixed window as the calls' instants define it
    life,       \* per rate key: what the calls saw during the counter key's lifetime
    grants,     \* per rate key: allowed calls by age (seconds since their increment)
    co,         \* per worker: where its CacheService call stands, and its locals
    jumps,      \* how many times the cache specifications let time pass
    storeUp,    \* whether the Redis server answers (FALSE: commands are rejected)
    gos,        \* per worker: where its getOrSet / rememberForever call stands
    made,       \* how many times a factory has been invoked (the factory's counter)
    served,     \* per cache key: the value the last getOrSet that computed it returned
    pool,       \* per PrismaClient: its open connections and their search_path
    wt,         \* per worker: where its withTenant / setSchema request stands
    db,         \* the relational store: tenant rows, subscription rows, schemas
    ts,         \* per worker: where its TenantService call stands
    au,         \* per worker: where its AuthService call stands, and its locals
    audit,      \* what AuthService has issued and accepted so far, for the claims
    ps          \* the subscriber connection: its channels, its 'message' listeners
                \* and what they have delivered

lockVars == <<lockHeld>>
rateVars == <<rateLimit, rateWindow, rl, win, life, grants>>
cacheVars == <<co, jumps>>
asideVars == <<storeUp, gos, made, served>>
prismaVars == <<pool, wt>>
tenantVars == <<db, ts>>
authVars == <<au, audit>>
pubsubVars == <<ps>>
serviceVars == <<asideVars, prismaVars, tenantVars, authVars, pubsubVars>>
vars == <<redis, ev, lockHeld, rateLimit, rateWindow, rl, win, life, grants, co, jumps,
          storeUp, gos, made, served, pool, wt, db, ts, au, audit, ps>>

(***************************************************************************)
(* Bounds                                                                  *)
(***************************************************************************)
NumCallers == 3
MaxTtl == 2
NumClients == 2
MaxLimit == 2
MaxWindow == 2
MaxCount == 3
MaxJumps == 1
MaxCounter == 1
MaxMade == 3
PoolLimit == 2
MaxCreates == 2
MaxRows == 1
MaxIssued == 2
MaxTokens == 2
MaxCodes == 2
MaxListeners == 2
MaxPlanLimit == 2
MaxCurrent == 2

Callers == 1..NumCallers
LockTtls == 1..MaxTtl
LockNames == {<<"l">>}
Clients == 1..NumClients
Limits == 1..MaxLimit
Windows == 1..MaxWindow
RateNames == {<<"x">>}
Workers == {"p", "q"}

(***************************************************************************)
(* The Redis server, as ioredis presents it to RedisService                *)
(***************************************************************************)
NoTtl == -1
KeyGone == -2

\* A string value that parses as an integer, any other string value, a set.
\* The field tags is bookkeeping for the claims, not Redis data: the tag-set
\* keys of the tags option of the CacheService.set call that wrote the value.
IntEntry(n, ttl) == [t |-> "int", n |-> n, s |-> <<>>, m |-> {}, ttl |-> ttl, tags |-> {}]
TextEntry(s, ttl) == [t |-> "text", n |-> 0, s |-> s, m |-> {}, ttl |-> ttl, tags |-> {}]
SetEntry(m, ttl) == [t |-> "set", n |-> 0, s |-> <<>>, m |-> m, ttl |-> ttl, tags |-> {}]

Put(r, k, e) == [x \in (DOMAIN r) \cup {k} |-> IF x = k THEN e ELSE r[x]]
Drop(r, K) == [x \in (DOMAIN r) \ K |-> r[x]]

\* EXISTS key
RedisExists(r, k) == k \in DOMAIN r

\* SET key value EX ttl NX: writes only an absent key; the reply is OK or nil.
RedisSetNxEx(r, k, s, ttl) == IF k \in DOMAIN r THEN r ELSE Put(r, k, TextEntry(s, ttl))
RedisSetNxExReply(r, k) == IF k \in DOMAIN r THEN "nil" ELSE "OK"

\* DEL key [key ...]: the reply is the number of keys that existed.
RedisDel(r, K) == Drop(r, K)
RedisDelReply(r, K) == Cardinality(K \cap DOMAIN r)

\* INCRBY key a (INCR is INCRBY 1): an absent key counts from 0 and gets no
\* expiry, an integer keeps its expiry; any other value is an error reply and
\* nothing is written.  The reply is the new value.
RedisIncrOk(r, k) == IF k \in DOMAIN r THEN r[k].t = "int" ELSE TRUE
RedisIncrBy(r, k, a) ==
    IF k \notin DOMAIN r THEN Put(r, k, IntEntry(a, NoTtl))
    ELSE IF r[k].t = "int" THEN [r EXCEPT ![k].n = @ + a]
    ELSE r
RedisIncrByReply(r, k, a) == IF k \in DOMAIN r THEN r[k].n + a ELSE a

\* EXPIRE key seconds: arms (or re-arms) the expiry of a present key; a
\* timeout that is not positive deletes the key.  The reply is 1 or 0.
RedisExpire(r, k, seconds) ==
    IF k \notin DOMAIN r THEN r
    ELSE IF seconds <= 0 THEN Drop(r, {k})
    ELSE [r EXCEPT ![k].ttl = seconds]
RedisExpireReply(r, k) == IF k \in DOMAIN r THEN 1 ELSE 0

\* TTL key: seconds left, -1 for a key without expiry, -2 for an absent key.
RedisTtl(r, k) == IF k \in DOMAIN r THEN r[k].ttl ELSE KeyGone

\* RedisService.set: SETEX key ttl value when a ttl is given, SET key value
\* otherwise; either replaces whatever the key held.
RedisSet(r, k, s, ttl) == Put(r, k, TextEntry(s, IF ttl # 0 THEN ttl ELSE NoTtl))

\* GET key: the value, nil for an absent key, an error reply for a set.
RedisGet(r, k) ==
    IF k \notin DOMAIN r THEN [kind |-> "nil", s |-> <<>>, n |-> 0]
    ELSE IF r[k].t = "set" THEN [kind |-> "error", s |-> <<>>, n |-> 0]
    ELSE [kind |-> r[k].t, s |-> r[k].s, n |-> r[k].n]

\* SADD key member: creates the set (without expiry) when the key is absent;
\* an error reply, and nothing written, when the key holds a string.
RedisSetOk(r, k) == IF k \in DOMAIN r THEN r[k].t = "set" ELSE TRUE
RedisSadd(r, k, member) ==
    IF k \notin DOMAIN r THEN Put(r, k, SetEntry({member}, NoTtl))
    ELSE IF r[k].t = "set" THEN [r EXCEPT ![k].m = @ \cup {member}]
    ELSE r

\* SMEMBERS key: the members, none for an absent key.
RedisSmembers(r, k) == IF k \in DOMAIN r THEN r[k].m ELSE {}

\* Glob match of a key against a pattern; "*" matches any run of characters.
RECURSIVE Match(_, _)
Match(p, k) ==
    IF p = <<>> THEN k = <<>>
    ELSE IF Head(p) = "*"
         THEN IF Match(Tail(p), k) THEN TRUE
              ELSE IF k = <<>> THEN FALSE ELSE Match(p, Tail(k))
    ELSE IF k = <<>> THEN FALSE
    ELSE IF Head(k) = Head(p) THEN Match(Tail(p), Tail(k)) ELSE FALSE

\* RedisService.scan: the keys a full SCAN MATCH pattern iteration returns,
\* taken as one reading of the keyspace.
RedisScan(r, pattern) == {k \in DOMAIN r : Match(pattern, k)}

\* The passing of d seconds.
Expired(r, d) == {k \in DOMAIN r : r[k].ttl # NoTtl /\ r[k].ttl <= d}
Elapse(r, d) ==
    [k \in (DOMAIN r) \ Expired(r, d) |->
        IF r[k].ttl = NoTtl THEN r[k] ELSE [r[k] EXCEPT !.ttl = @ - d]]

(***************************************************************************)
(* Distributed lock                                                        *)
(***************************************************************************)
LockKey(key) == <<"lock:">> \o key

\* The identifier is the clock reading as text; nothing ever reads it back.
LockIdentifier == <<"Date.now">>

\* A caller holds a lock from its successful acquireLock until it calls
\* releaseLock or the ttl it asked for has elapsed.
Holds(c, key) == lockHeld[c][key] > 0

NoEvent ==
    [op |-> "init", who |-> 0, key |-> <<>>, tenant |-> <<>>,
     arg |-> 0, ret |-> 0, at |-> 0, ok |-> FALSE,
     val |-> [kind |-> "none", v |-> <<>>, n |-> 0], err |-> "none"]
Event(op, who, key, arg, ok) ==
    [NoEvent EXCEPT !.op = op, !.who = who, !.key = key, !.arg = arg, !.ok = ok]

\* acquireLock with a plain SET ... EX (the NX flag forgotten).
acquireLockNoNx(c, key, ttl) ==
    LET lockKey == LockKey(key)
    IN  /\ redis' = Put(redis, lockKey, TextEntry(LockIdentifier, ttl))
        /\ ev' = Event("acquireLock", c, key, ttl, TRUE)
        /\ lockHeld' = [lockHeld EXCEPT ![c][key] = ttl]
        /\ UNCHANGED <<rateVars, cacheVars, serviceVars>>

acquireLock(c, key, ttl) ==
    LET lockKey == LockKey(key)
        result == RedisSetNxExReply(redis, lockKey)
    IN  /\ redis' = RedisSetNxEx(redis, lockKey, LockIdentifier, ttl)
        /\ ev' = Event("acquireLock", c, key, ttl, result = "OK")
        /\ lockHeld' = IF result = "OK"
                       THEN [lockHeld EXCEPT ![c][key] = ttl]
                       ELSE lockHeld
        /\ UNCHANGED <<rateVars, cacheVars, serviceVars>>

\* releaseLock as an owner-checking implementation would do it (compare the
\* stored owner with the caller before deleting).
releaseLockIfOwner(c, key) ==
    LET lockKey == LockKey(key)
        mine == Holds(c, key)
        result == IF mine THEN RedisDelReply(redis, {lockKey}) ELSE 0
    IN  /\ lockHeld[c][key] >= 0
        /\ redis' = IF mine THEN RedisDel(redis, {lockKey}) ELSE redis
        /\ ev' = Event("releaseLock", c, key, 0, result > 0)
        /\ lockHeld' = [lockHeld EXCEPT ![c][key] = -1]
        /\ UNCHANGED <<rateVars, cacheVars, serviceVars>>

\* Callers release what they acquired (acquire, work, release); a caller
\* whose ttl ran out during its work does not know and releases all the same.
releaseLock(c, key) ==
    LET lockKey == LockKey(key)
        result == RedisDelReply(redis, {lockKey})
    IN  /\ lockHeld[c][key] >= 0
        /\ redis' = RedisDel(redis, {lockKey})
        /\ ev' = Event("releaseLock", c, key, 0, result > 0)
        /\ lockHeld' = [lockHeld EXCEPT ![c][key] = -1]
        /\ UNCHANGED <<rateVars, cacheVars, serviceVars>>


(***************************************************************************)
(* Rate limiter                                                            *)
(***************************************************************************)
RateLimitKey(key) == <<"rate_limit:">> \o key

Max(a, b) == IF a >= b THEN a ELSE b

\* allowed: current <= limit, with the count before the increment compared.
AllowedOffByOne(current, limit) == current - 1 <= limit

Allowed(current, limit) == current <= limit
\* remaining: limit - current, not clamped at 0.
RemainingUnclamped(current, limit) == limit - current

Remaining(current, limit) == Max(0, limit - current)
\* resetAt - Date.now(), in milliseconds
ResetAtOffset(ttl) == ttl * 1000

RlIdle == [pc |-> "idle", key |-> <<>>, current |-> 0]

\* What the increment of a call means for the bookkeeping of the claims:
\*   win    the window opened by the first call made when none is open; it
\*          lasts rateWindow seconds from that call (left = 0: none open)
\*   life   the values handed out, and the calls allowed, while the counter
\*          key has existed without interruption
\*   grants the allowed calls, by age
Booked(key, current) ==
    /\ win' = [win EXCEPT ![key] =
                  IF @.left = 0 THEN [left |-> rateWindow, calls |-> 1]
                  ELSE [@ EXCEPT !.calls = @ + 1]]
    /\ life' = [life EXCEPT ![key] =
                  [seen |-> @.seen \cup {current},
                   dup |-> @.dup \/ current \in @.seen,
                   allowed |-> @.allowed + (IF Allowed(current, rateLimit) THEN 1 ELSE 0)]]
    /\ grants' = [grants EXCEPT ![key][0] =
                  @ + (IF Allowed(current, rateLimit) THEN 1 ELSE 0)]

\* The increment done as GET then SET: the caller writes back the value it
\* read, so it repeats the value the caller before it was given.
rlIncrLostUpdate(c, key) ==
    LET redisKey == RateLimitKey(key)
        current == IF RedisExists(redis, redisKey) THEN redis[redisKey].n ELSE 1
    IN  /\ rl[c].pc = "idle"
        /\ RedisIncrOk(redis, redisKey)
        /\ RedisIncrByReply(redis, redisKey, 1) <= MaxCount
        /\ redis' = IF RedisExists(redis, redisKey) THEN redis
                     ELSE Put(redis, redisKey, IntEntry(1, NoTtl))
        /\ rl' = [rl EXCEPT ![c] = [pc |-> IF current = 1 THEN "expire" ELSE "ttl",
                                     key |-> key, current |-> current]]
        /\ ev' = Event("incr", c, key, current, TRUE)
        /\ Booked(key, current)
        /\ UNCHANGED <<lockVars, cacheVars, serviceVars, rateLimit, rateWindow>>

\* The expiry armed by every call, not only by the one that counted 1.
rlIncrAlwaysExpire(c, key) ==
    LET redisKey == RateLimitKey(key)
        current == RedisIncrByReply(redis, redisKey, 1)
    IN  /\ rl[c].pc = "idle"
        /\ RedisIncrOk(redis, redisKey)
        /\ current <= MaxCount
        /\ redis' = RedisIncrBy(redis, redisKey, 1)
        /\ rl' = [rl EXCEPT ![c] = [pc |-> "expire", key |-> key, current |-> current]]
        /\ ev' = Event("incr", c, key, current, TRUE)
        /\ Booked(key, current)
        /\ UNCHANGED <<lockVars, cacheVars, serviceVars, rateLimit, rateWindow>>

\* The expiry armed by every call that is still within the limit.
rlIncrExpireWhileAllowed(c, key) ==
    LET redisKey == RateLimitKey(key)
        current == RedisIncrByReply(redis, redisKey, 1)
    IN  /\ rl[c].pc = "idle"
        /\ RedisIncrOk(redis, redisKey)
        /\ current <= MaxCount
        /\ redis' = RedisIncrBy(redis, redisKey, 1)
        /\ rl' = [rl EXCEPT ![c] = [pc |-> IF current <= rateLimit THEN "expire" ELSE "ttl",
                                     key |-> key, current |-> current]]
        /\ ev' = Event("incr", c, key, current, TRUE)
        /\ Booked(key, current)
        /\ UNCHANGED <<lockVars, cacheVars, serviceVars, rateLimit, rateWindow>>

\* const current = await this.incr(redisKey); if (current === 1) ...
rlIncr(c, key) ==
    LET redisKey == RateLimitKey(key)
        current == RedisIncrByReply(redis, redisKey, 1)
    IN  /\ rl[c].pc = "idle"
        /\ RedisIncrOk(redis, redisKey)
        /\ current <= MaxCount
        /\ redis' = RedisIncrBy(redis, redisKey, 1)
        /\ rl' = [rl EXCEPT ![c] = [pc |-> IF current = 1 THEN "expire" ELSE "ttl",
                                     key |-> key, current |-> current]]
        /\ ev' = Event("incr", c, key, current, TRUE)
        /\ Booked(key, current)
        /\ UNCHANGED <<lockVars, cacheVars, serviceVars, rateLimit, rateWindow>>

\* await this.expire(redisKey, window)
rlExpire(c) ==
    /\ rl[c].pc = "expire"
    /\ redis' = RedisExpire(redis, RateLimitKey(rl[c].key), rateWindow)
    /\ rl' = [rl EXCEPT ![c].pc = "ttl"]
    /\ ev' = Event("expire", c, rl[c].key, rateWindow, TRUE)
    /\ UNCHANGED <<lockVars, cacheVars, serviceVars, rateLimit, rateWindow, win, life, grants>>

\* await this.expire(redisKey, window) rejects (the connection was lost after
\* the increment was applied), or the process stops there: the call ends with
\* the counter incremented and no expiry armed.
rlExpireFails(c) ==
    /\ rl[c].pc = "expire"
    /\ rl' = [rl EXCEPT ![c] = RlIdle]
    /\ ev' = [Event("checkRateLimit", c, rl[c].key, rl[c].current, FALSE)
                 EXCEPT !.err = "store"]
    /\ UNCHANGED <<redis, lockVars, cacheVars, serviceVars, rateLimit, rateWindow, win, life, grants>>

\* const ttl = await this.ttl(redisKey); return {allowed, remaining, resetAt}
rlReturn(c) ==
    LET ttl == RedisTtl(redis, RateLimitKey(rl[c].key))
    IN  /\ rl[c].pc = "ttl"
        /\ rl' = [rl EXCEPT ![c] = RlIdle]
        /\ ev' = [Event("checkRateLimit", c, rl[c].key, rl[c].current,
                         Allowed(rl[c].current, rateLimit))
                     EXCEPT !.ret = Remaining(rl[c].current, rateLimit),
                            !.at = ResetAtOffset(ttl)]
        /\ UNCHANGED <<redis, lockVars, cacheVars, serviceVars, rateLimit, rateWindow, win, life, grants>>


(***************************************************************************)
(* CacheService                                                            *)
(***************************************************************************)
CACHE_TTL_MEDIUM == 600
CACHE_TTL_DAY == 86400
CACHE_TTL_WEEK == 604800

\* No tenant given (undefined, or the empty string, which is falsy too).
NoTenant == <<>>

\* From @shopen/utils: a per-tenant prefix built from the tenant id.
generateTenantCachePrefix(tenantId) == <<"tenant:">> \o tenantId \o <<":">>

\* generateKey with the tenant left out of the key.
generateKeyNoPrefix(key, tenantId) == key

generateKey(key, tenantId) ==
    IF tenantId # NoTenant THEN generateTenantCachePrefix(tenantId) \o key ELSE key

\* generateKey(`tag:${tag}`, tenantId)
TagKey(tag, tenantId) == generateKey(<<"tag:">> \o tag, tenantId)

\* JSON.stringify of a string value, and JSON.parse of a stored text.
JSONStringify(value) == <<"\"">> \o value \o <<"\"">>
JSONParses(s) == IF Len(s) >= 2 THEN Head(s) = "\"" /\ s[Len(s)] = "\"" ELSE FALSE
JSONParse(s) == SubSeq(s, 2, Len(s) - 1)

\* RedisService.getJSON: null for an absent key and for text that does not
\* parse; a set under the key makes GET, and the call, fail.
getJSON(r, k) ==
    LET g == RedisGet(r, k)
    IN  IF g.kind = "error" THEN [kind |-> "error", v |-> <<>>, n |-> 0]
        ELSE IF g.kind = "nil" THEN [kind |-> "null", v |-> <<>>, n |-> 0]
        ELSE IF g.kind = "int" THEN [kind |-> "number", v |-> <<>>, n |-> g.n]
        ELSE IF JSONParses(g.s) THEN [kind |-> "value", v |-> JSONParse(g.s), n |-> 0]
        ELSE [kind |-> "null", v |-> <<>>, n |-> 0]

\* CacheService.get and CacheService.exists, as a caller would see them now.
CacheGet(key, tenantId) == getJSON(redis, generateKey(key, tenantId))
CacheExists(key, tenantId) == RedisExists(redis, generateKey(key, tenantId))

CoIdle == [pc |-> "idle", tenant |-> <<>>, key |-> <<>>, tagKey |-> <<>>,
           rest |-> <<>>, keys |-> {}, n |-> 0, pre |-> {}]

\* The event of a CacheService step: the call (or store command), its tenant
\* argument and effective key, and what a completed call returned.
CEvent(op, w, tenantId, key, ret, ok) ==
    [NoEvent EXCEPT !.op = op, !.tenant = tenantId, !.key = key, !.ret = ret, !.ok = ok]

TagKeysOf(tags, tenantId) == {TagKey(tags[i], tenantId) : i \in 1..Len(tags)}

\* set: await this.redis.setJSON(cacheKey, value, ttl); then addToTags when
\* tags are given.  ttlOpt = 0 stands for no ttl option.
cacheSet(w, key, value, ttlOpt, tenantId, tags) ==
    LET cacheKey == generateKey(key, tenantId)
        ttl == IF ttlOpt # 0 THEN ttlOpt ELSE CACHE_TTL_MEDIUM
        written == RedisSet(redis, cacheKey, JSONStringify(value), ttl)
    IN  /\ co[w].pc = "idle"
        /\ redis' = [written EXCEPT ![cacheKey].tags = TagKeysOf(tags, tenantId)]
        /\ co' = [co EXCEPT ![w] =
                    IF tags = <<>> THEN CoIdle
                    ELSE [CoIdle EXCEPT !.pc = "sadd", !.tenant = tenantId,
                                        !.key = cacheKey, !.rest = tags]]
        /\ ev' = CEvent(IF tags = <<>> THEN "set" ELSE "setJSON", w, tenantId, cacheKey, 0, TRUE)
        /\ UNCHANGED <<lockVars, rateVars, jumps, serviceVars>>

\* addToTags: await this.redis.sadd(tagKey, key)
addToTagsSadd(w) ==
    LET tagKey == TagKey(Head(co[w].rest), co[w].tenant)
    IN  /\ co[w].pc = "sadd"
        /\ IF RedisSetOk(redis, tagKey)
           THEN /\ redis' = RedisSadd(redis, tagKey, co[w].key)
                /\ co' = [co EXCEPT ![w].pc = "expire", ![w].tagKey = tagKey]
                /\ ev' = CEvent("sadd", w, co[w].tenant, tagKey, 0, TRUE)
           ELSE /\ redis' = redis
                /\ co' = [co EXCEPT ![w] = CoIdle]
                /\ ev' = CEvent("set", w, co[w].tenant, co[w].key, 0, FALSE)
        /\ UNCHANGED <<lockVars, rateVars, jumps, serviceVars>>

\* addToTags arming the expiry only of a tag-set that has none.
addToTagsExpireOnce(w) ==
    /\ co[w].pc = "expire"
    /\ redis' = IF RedisTtl(redis, co[w].tagKey) = NoTtl
                THEN RedisExpire(redis, co[w].tagKey, CACHE_TTL_DAY)
                ELSE redis
    /\ co' = [co EXCEPT ![w] =
                IF Tail(co[w].rest) = <<>> THEN CoIdle
                ELSE [@ EXCEPT !.pc = "sadd", !.rest = Tail(@)]]
    /\ ev' = CEvent(IF Tail(co[w].rest) = <<>> THEN "set" ELSE "expire",
                    w, co[w].tenant, co[w].key, 0, TRUE)
    /\ UNCHANGED <<lockVars, rateVars, jumps, serviceVars>>

\* addToTags: await this.redis.expire(tagKey, CACHE_TTL.DAY), then the next tag
addToTagsExpire(w) ==
    /\ co[w].pc = "expire"
    /\ redis' = RedisExpire(redis, co[w].tagKey, CACHE_TTL_DAY)
    /\ co' = [co EXCEPT ![w] =
                IF Tail(co[w].rest) = <<>> THEN CoIdle
                ELSE [@ EXCEPT !.pc = "sadd", !.rest = Tail(@)]]
    /\ ev' = CEvent(IF Tail(co[w].rest) = <<>> THEN "set" ELSE "expire",
                    w, co[w].tenant, co[w].key, 0, TRUE)
    /\ UNCHANGED <<lockVars, rateVars, jumps, serviceVars>>

\* invalidateTag: const keys = await this.redis.smembers(tagKey);
\* if (keys.length === 0) return 0
invalidateTag(w, tag, tenantId) ==
    LET tagKey == TagKey(tag, tenantId)
        keys == RedisSmembers(redis, tagKey)
    IN  /\ co[w].pc = "idle"
        /\ redis' = redis
        /\ IF ~RedisSetOk(redis, tagKey)
           THEN /\ co' = co
                /\ ev' = CEvent("invalidateTag", w, tenantId, tagKey, 0, FALSE)
           ELSE IF keys = {}
           THEN /\ co' = co
                /\ ev' = CEvent("invalidateTag", w, tenantId, tagKey, 0, TRUE)
           ELSE /\ co' = [co EXCEPT ![w] =
                            [CoIdle EXCEPT !.pc = "delKeys", !.tenant = tenantId,
                                           !.tagKey = tagKey, !.keys = keys,
                                           !.pre = DOMAIN redis]]
                /\ ev' = CEvent("smembers", w, tenantId, tagKey, 0, TRUE)
        /\ UNCHANGED <<lockVars, rateVars, jumps, serviceVars>>

\* invalidateTag whose del fails when a key it names is no longer there.
invalidateTagDelKeysStrict(w) ==
    /\ co[w].pc = "delKeys"
    /\ IF co[w].keys \subseteq DOMAIN redis
       THEN /\ redis' = RedisDel(redis, co[w].keys)
            /\ co' = [co EXCEPT ![w].pc = "delTag", ![w].n = RedisDelReply(redis, co[w].keys)]
            /\ ev' = CEvent("del", w, co[w].tenant, co[w].tagKey, 0, TRUE)
       ELSE /\ redis' = redis
            /\ co' = [co EXCEPT ![w] = CoIdle]
            /\ ev' = CEvent("invalidateTag", w, co[w].tenant, co[w].tagKey, 0, FALSE)
    /\ UNCHANGED <<lockVars, rateVars, jumps, serviceVars>>

\* invalidateTag: const deleted = await this.redis.del(keys)
invalidateTagDelKeys(w) ==
    /\ co[w].pc = "delKeys"
    /\ redis' = RedisDel(redis, co[w].keys)
    /\ co' = [co EXCEPT ![w].pc = "delTag", ![w].n = RedisDelReply(redis, co[w].keys)]
    /\ ev' = CEvent("del", w, co[w].tenant, co[w].tagKey, 0, TRUE)
    /\ UNCHANGED <<lockVars, rateVars, jumps, serviceVars>>

\* invalidateTag: await this.redis.del(tagKey); return deleted.  The event
\* also tells how many of the entries present at the start of the call are
\* gone at its end (at).
invalidateTagDelTag(w) ==
    /\ co[w].pc = "delTag"
    /\ redis' = RedisDel(redis, {co[w].tagKey})
    /\ co' = [co EXCEPT ![w] = CoIdle]
    /\ ev' = [CEvent("invalidateTag", w, co[w].tenant, co[w].tagKey, co[w].n, TRUE)
                EXCEPT !.at = Cardinality((co[w].pre \ {co[w].tagKey}) \ DOMAIN redis')]
    /\ UNCHANGED <<lockVars, rateVars, jumps, serviceVars>>

\* delete
cacheDelete(w, key, tenantId) ==
    LET cacheKey == generateKey(key, tenantId)
    IN  /\ co[w].pc = "idle"
        /\ redis' = RedisDel(redis, {cacheKey})
        /\ UNCHANGED co
        /\ ev' = CEvent("delete", w, tenantId, cacheKey, 0,
                        RedisDelReply(redis, {cacheKey}) > 0)
        /\ UNCHANGED <<lockVars, rateVars, jumps, serviceVars>>

\* increment (amount > 0) and decrement (amount < 0): INCRBY on the prefixed key
cacheIncrBy(w, op, key, amount, tenantId) ==
    LET cacheKey == generateKey(key, tenantId)
    IN  /\ co[w].pc = "idle"
        /\ RedisIncrByReply(redis, cacheKey, amount) \in -MaxCounter..MaxCounter
        /\ redis' = RedisIncrBy(redis, cacheKey, amount)
        /\ UNCHANGED co
        /\ ev' = IF RedisIncrOk(redis, cacheKey)
                 THEN CEvent(op, w, tenantId, cacheKey,
                             RedisIncrByReply(redis, cacheKey, amount), TRUE)
                 ELSE CEvent(op, w, tenantId, cacheKey, 0, FALSE)
        /\ UNCHANGED <<lockVars, rateVars, jumps, serviceVars>>

increment(w, key, amount, tenantId) == cacheIncrBy(w, "increment", key, amount, tenantId)
decrement(w, key, amount, tenantId) == cacheIncrBy(w, "decrement", key, -amount, tenantId)

\* RedisService.invalidatePattern: const keys = await this.scan(pattern);
\* if (keys.length === 0) return 0
redisInvalidatePattern(w, op, keyPattern, tenantId) ==
    LET keys == RedisScan(redis, keyPattern)
    IN  /\ co[w].pc = "idle"
        /\ redis' = redis
        /\ IF keys = {}
           THEN /\ co' = co
                /\ ev' = CEvent(op, w, tenantId, keyPattern, 0, TRUE)
           ELSE /\ co' = [co EXCEPT ![w] =
                            [CoIdle EXCEPT !.pc = "delScan", !.tenant = tenantId,
                                           !.key = keyPattern, !.keys = keys,
                                           !.rest = <<op>>]]
                /\ ev' = CEvent("scan", w, tenantId, keyPattern, 0, TRUE)
        /\ UNCHANGED <<lockVars, rateVars, jumps, serviceVars>>

\* invalidatePattern returning the number of keys its scan found.
invalidatePatternDelCountsScan(w) ==
    /\ co[w].pc = "delScan"
    /\ redis' = RedisDel(redis, co[w].keys)
    /\ co' = [co EXCEPT ![w] = CoIdle]
    /\ ev' = CEvent(Head(co[w].rest), w, co[w].tenant, co[w].key,
                    Cardinality(co[w].keys), TRUE)
    /\ UNCHANGED <<lockVars, rateVars, jumps, serviceVars>>

\* RedisService.invalidatePattern: return this.del(keys)
invalidatePatternDel(w) ==
    /\ co[w].pc = "delScan"
    /\ redis' = RedisDel(redis, co[w].keys)
    /\ co' = [co EXCEPT ![w] = CoIdle]
    /\ ev' = CEvent(Head(co[w].rest), w, co[w].tenant, co[w].key,
                    RedisDelReply(redis, co[w].keys), TRUE)
    /\ UNCHANGED <<lockVars, rateVars, jumps, serviceVars>>

invalidatePattern(w, pattern, tenantId) ==
    redisInvalidatePattern(w, "invalidatePattern", generateKey(pattern, tenantId), tenantId)

clearTenantCache(w, tenantId) ==
    redisInvalidatePattern(w, "clearTenantCache",
                           generateTenantCachePrefix(tenantId) \o <<"*">>, tenantId)

\* d seconds pass: the server expires keys, the callers' own ttls run down.
Advance(d) ==
    /\ d > 0
    /\ redis' = Elapse(redis, d)
    /\ lockHeld' = [c \in Callers |-> [k \in LockNames |->
                        IF lockHeld[c][k] > d THEN lockHeld[c][k] - d
                        ELSE IF lockHeld[c][k] >= 0 THEN 0 ELSE -1]]
    /\ win' = [k \in RateNames |->
                  IF win[k].left > d THEN [win[k] EXCEPT !.left = @ - d]
                  ELSE [left |-> 0, calls |-> 0]]
    /\ life' = [k \in RateNames |->
                  IF RateLimitKey(k) \in Expired(redis, d)
                  THEN [seen |-> {}, dup |-> FALSE, allowed |-> 0]
                  ELSE life[k]]
    /\ grants' = [k \in RateNames |-> [a \in 0..rateWindow |->
                  IF a >= d THEN grants[k][a - d] ELSE 0]]
    /\ ev' = Event("time", 0, <<>>, d, TRUE)
    /\ UNCHANGED <<rateLimit, rateWindow, rl, co, serviceVars>>

Tick == Advance(1) /\ UNCHANGED jumps

\* Time passing between calls only.
TickBetweenCalls == (\A c \in Clients : rl[c].pc = "idle") /\ Tick

\* Time passes until some armed key runs out.
ArmedTtls == {redis[k].ttl : k \in DOMAIN redis} \ {NoTtl}
Expire ==
    /\ jumps < MaxJumps
    /\ jumps' = jumps + 1
    /\ \E d \in ArmedTtls : Advance(d)
ExpireBetweenCalls == (\A w \in Workers : co[w].pc = "idle") /\ Expire

(***************************************************************************)
(* Cache-aside: CacheService.getOrSet and CacheService.rememberForever     *)
(***************************************************************************)
\* JavaScript values, in the shape getJSON yields them: null, a string, a
\* number.
JsNull == [kind |-> "null", v |-> <<>>, n |-> 0]
JsText(s) == [kind |-> "value", v |-> s, n |-> 0]
JsNumber(n) == [kind |-> "number", v |-> <<>>, n |-> n]

\* JSON.stringify of a value that is not a number.
JSONText(value) == IF value.kind = "null" THEN <<"null">> ELSE JSONStringify(value.v)

\* RedisService.setJSON: JSON.stringify, then set (ttl = 0: no ttl given).
\* The JSON text of a number is its digits, which Redis holds as an integer.
setJSON(r, k, value, ttl) ==
    IF value.kind = "number"
    THEN Put(r, k, IntEntry(value.n, IF ttl # 0 THEN ttl ELSE NoTtl))
    ELSE RedisSet(r, k, JSONText(value), ttl)

\* What a factory may do: increment a counter and return it, return a string,
\* return null, or throw.
FactoryOutcomes == {"counter", "text", "null", "throw"}
FactoryValue(outcome, n) ==
    IF outcome = "counter" THEN JsNumber(n)
    ELSE IF outcome = "text" THEN JsText(<<"v">>)
    ELSE JsNull

GosIdle == [pc |-> "idle", op |-> "none", key |-> <<>>, tenant |-> <<>>, ttlOpt |-> 0,
            tags |-> <<>>, value |-> JsNull, live |-> 0, pre |-> <<>>]

\* The event of a getOrSet / rememberForever step.  A completed call tells
\* the value returned (val), the error it failed with (err), whether an entry
\* an earlier call computed was live when the call began (arg), and how many
\* times the call invoked its factory (at).
GEvent(op, tenantId, key, val, err, live, invoked) ==
    [NoEvent EXCEPT !.op = op, !.tenant = tenantId, !.key = key, !.val = val,
                    !.err = err, !.ok = (err = "none"), !.arg = live, !.at = invoked]

Pending == Cardinality({w \in Workers : gos[w].pc = "factory"})

\* getOrSet / rememberForever: const cached = await this.get(key, options);
\* if (cached !== null) return cached
cacheAside(w, op, key, ttlOpt, tenantId, tags) ==
    LET cacheKey == generateKey(key, tenantId)
        cached == getJSON(redis, cacheKey)
        live == IF cacheKey \in DOMAIN redis /\ cacheKey \in DOMAIN served THEN 1 ELSE 0
    IN  /\ gos[w].pc = "idle"
        /\ co[w].pc = "idle"
        /\ made + Pending < MaxMade
        /\ redis' = redis
        /\ IF ~storeUp
           THEN /\ gos' = gos
                /\ ev' = GEvent(op, tenantId, cacheKey, JsNull, "store", live, 0)
           ELSE IF cached.kind = "error"
           THEN /\ gos' = gos
                /\ ev' = GEvent(op, tenantId, cacheKey, JsNull, "wrongtype", live, 0)
           ELSE IF cached # JsNull
           THEN /\ gos' = gos
                /\ ev' = GEvent(op, tenantId, cacheKey, cached, "none", live, 0)
           ELSE /\ gos' = [gos EXCEPT ![w] =
                             [GosIdle EXCEPT !.pc = "factory", !.op = op, !.key = cacheKey,
                                             !.tenant = tenantId, !.ttlOpt = ttlOpt,
                                             !.tags = tags, !.live = live, !.pre = redis]]
                /\ ev' = GEvent("get", tenantId, cacheKey, JsNull, "none", live, 0)
        /\ UNCHANGED <<lockVars, rateVars, cacheVars, storeUp, made, served,
                       prismaVars, tenantVars,
                   authVars, pubsubVars>>

getOrSet(w, key, ttlOpt, tenantId, tags) == cacheAside(w, "getOrSet", key, ttlOpt, tenantId, tags)
rememberForever(w, key, tenantId) == cacheAside(w, "rememberForever", key, 0, tenantId, <<>>)

\* A factory that caches its own failure: a failed factory leaves a null behind.
gosFactoryCachesFailure(w, outcome) ==
    LET g == gos[w]
    IN  /\ g.pc = "factory"
        /\ made' = made + 1
        /\ IF outcome = "throw"
           THEN /\ redis' = setJSON(redis, g.key, JsNull, CACHE_TTL_MEDIUM)
                /\ gos' = [gos EXCEPT ![w] = GosIdle]
                /\ ev' = GEvent(g.op, g.tenant, g.key, JsNull, "factory", g.live, 1)
           ELSE /\ redis' = redis
                /\ gos' = [gos EXCEPT ![w].pc = "set",
                                      ![w].value = FactoryValue(outcome, made + 1)]
                /\ ev' = GEvent("factory", g.tenant, g.key, JsNull, "none", g.live, 1)
        /\ UNCHANGED <<lockVars, rateVars, cacheVars, storeUp, served,
                       prismaVars, tenantVars,
                   authVars, pubsubVars>>

\* getOrSet / rememberForever: const value = await factory()
gosFactory(w, outcome) ==
    LET g == gos[w]
    IN  /\ g.pc = "factory"
        /\ made' = made + 1
        /\ redis' = redis
        /\ IF outcome = "throw"
           THEN /\ gos' = [gos EXCEPT ![w] = GosIdle]
                /\ ev' = GEvent(g.op, g.tenant, g.key, JsNull, "factory", g.live, 1)
           ELSE /\ gos' = [gos EXCEPT ![w].pc = "set",
                                      ![w].value = FactoryValue(outcome, made + 1)]
                /\ ev' = GEvent("factory", g.tenant, g.key, JsNull, "none", g.live, 1)
        /\ UNCHANGED <<lockVars, rateVars, cacheVars, storeUp, served,
                       prismaVars, tenantVars,
                   authVars, pubsubVars>>

Served(key, value) == [x \in (DOMAIN served) \cup {key} |-> IF x = key THEN value ELSE served[x]]

\* getOrSet: await this.set(key, value, options), whose first await is
\* setJSON(cacheKey, value, ttl) and whose addToTags follows when tags are
\* given; rememberForever: await this.redis.setJSON(cacheKey, value), no ttl.
gosSet(w) ==
    LET g == gos[w]
        ttl == IF g.ttlOpt # 0 THEN g.ttlOpt ELSE CACHE_TTL_MEDIUM
        written == IF g.op = "rememberForever"
                   THEN setJSON(redis, g.key, g.value, 0)
                   ELSE [setJSON(redis, g.key, g.value, ttl)
                            EXCEPT ![g.key].tags = TagKeysOf(g.tags, g.tenant)]
    IN  /\ g.pc = "set"
        /\ co[w].pc = "idle"
        /\ IF ~storeUp
           THEN /\ redis' = redis
                /\ gos' = [gos EXCEPT ![w] = GosIdle]
                /\ UNCHANGED <<co, served>>
                /\ ev' = GEvent(g.op, g.tenant, g.key, JsNull, "store", g.live, 1)
           ELSE IF g.tags = <<>>
           THEN /\ redis' = written
                /\ gos' = [gos EXCEPT ![w] = GosIdle]
                /\ co' = co
                /\ served' = Served(g.key, g.value)
                /\ ev' = GEvent(g.op, g.tenant, g.key, g.value, "none", g.live, 1)
           ELSE /\ redis' = written
                /\ gos' = [gos EXCEPT ![w].pc = "tags"]
                /\ co' = [co EXCEPT ![w] =
                            [CoIdle EXCEPT !.pc = "sadd", !.tenant = g.tenant,
                                           !.key = g.key, !.rest = g.tags]]
                /\ served' = served
                /\ ev' = GEvent("setJSON", g.tenant, g.key, JsNull, "none", g.live, 1)
        /\ UNCHANGED <<lockVars, rateVars, jumps, storeUp, made, prismaVars, tenantVars,
                   authVars, pubsubVars>>

\* getOrSet: return value, once this.set has returned
gosReturn(w) ==
    LET g == gos[w]
    IN  /\ g.pc = "tags"
        /\ co[w].pc = "idle"
        /\ redis' = redis
        /\ gos' = [gos EXCEPT ![w] = GosIdle]
        /\ served' = Served(g.key, g.value)
        /\ ev' = GEvent(g.op, g.tenant, g.key, g.value, "none", g.live, 1)
        /\ UNCHANGED <<lockVars, rateVars, cacheVars, storeUp, made, prismaVars, tenantVars,
                   authVars, pubsubVars>>

\* The Redis server becomes unreachable (commands are rejected once ioredis
\* gives up retrying), and reachable again; the data stays.
StoreDown ==
    /\ storeUp
    /\ storeUp' = FALSE
    /\ ev' = Event("outage", 0, <<>>, 0, TRUE)
    /\ UNCHANGED <<redis, lockVars, rateVars, cacheVars, gos, made, served,
                   prismaVars, tenantVars,
                   authVars, pubsubVars>>

StoreBack ==
    /\ ~storeUp
    /\ storeUp' = TRUE
    /\ ev' = Event("recovery", 0, <<>>, 0, TRUE)
    /\ UNCHANGED <<redis, lockVars, rateVars, cacheVars, gos, made, served,
                   prismaVars, tenantVars,
                   authVars, pubsubVars>>


(***************************************************************************)
(* PrismaService: the shared client, setSchema and withTenant              *)
(*                                                                         *)
(* A PrismaClient owns a pool of database connections, opened on demand up *)
(* to the datasource's connection limit (PoolLimit).  A statement runs on  *)
(* an idle connection of its client, or on a newly opened one when none is *)
(* idle; search_path is a setting of the one connection a SET ran on.      *)
(***************************************************************************)
\* From @shopen/utils: the namespace (schema) name of a tenant.
generateSchemaName(tenantId) == <<"tenant_">> \o tenantId

\* The search_path of a newly opened connection.
DefaultPath == <<"public">>

\* The process-wide client (this.prisma) and the temporary client of each
\* withTenant call in progress, named by the worker that made the call.
SharedClient == "shared"
PrismaClients == {SharedClient} \cup Workers

Conn(path, busy) == [path |-> path, busy |-> busy]

\* The connections a statement of client c may run on now: the idle ones, or
\* a new one when none is idle and the pool is not full (else it waits).
Candidates(c) ==
    LET conns == pool.conns[c]
        idle == {i \in 1..Len(conns) : ~conns[i].busy}
    IN  IF idle # {} THEN idle
        ELSE IF Len(conns) < PoolLimit THEN {Len(conns) + 1}
        ELSE {}

\* Connection i of client c, opened when it is not there yet, set to conn.
WithConn(c, i, conn) ==
    LET conns == pool.conns[c]
    IN  IF i <= Len(conns) THEN [conns EXCEPT ![i] = conn] ELSE Append(conns, conn)

PathOf(c, i) == IF i <= Len(pool.conns[c]) THEN pool.conns[c][i].path ELSE DefaultPath

Release(conns, held) == [i \in 1..Len(conns) |-> IF i \in held THEN [conns[i] EXCEPT !.busy = FALSE] ELSE conns[i]]

\* The callbacks of the repository, as the batches of queries they issue:
\* executeRawWithTenant awaits one query; getTenantStats awaits Promise.all
\* of three counts, then one aggregate.
CallbackSingle == <<1>>
CallbackStats == <<3, 1>>
Callbacks == {CallbackSingle, CallbackStats}

WtIdle == [pc |-> "idle", client |-> SharedClient, tenant |-> <<>>, batches |-> <<>>,
           todo |-> 0, running |-> {}, closes |-> 0, thrown |-> FALSE]

\* The event of a PrismaService step: for a query, the search_path of the
\* connection it runs on (key); for a completed withTenant, how many times
\* it disconnected its client (at).
PEvent(op, tenantId, path, closes, ok) ==
    [NoEvent EXCEPT !.op = op, !.tenant = tenantId, !.key = path, !.at = closes, !.ok = ok]

\* setSchema: this.currentSchema = schemaName; await $executeRawUnsafe(SET
\* search_path ...) on the shared client.  The request then queries through
\* this.client.
setSchema(w, tenantId) ==
    LET schemaName == generateSchemaName(tenantId)
    IN  /\ wt[w].pc = "idle"
        /\ \E i \in Candidates(SharedClient) :
              pool' = [pool EXCEPT !.currentSchema = schemaName,
                                   !.conns[SharedClient] =
                                       WithConn(SharedClient, i, Conn(schemaName, FALSE))]
        /\ wt' = [wt EXCEPT ![w] = [WtIdle EXCEPT !.pc = "callback", !.tenant = tenantId,
                                                  !.batches = CallbackSingle, !.todo = 1]]
        /\ ev' = PEvent("setSchema", tenantId, schemaName, 0, TRUE)
        /\ UNCHANGED <<redis, lockVars, rateVars, cacheVars, asideVars, tenantVars, authVars, pubsubVars>>

\* withTenant: const tenantPrisma = new PrismaClient(...); the SET is issued.
withTenant(w, tenantId, callback) ==
    /\ wt[w].pc = "idle"
    /\ wt' = [wt EXCEPT ![w] = [WtIdle EXCEPT !.pc = "switch", !.client = w,
                                              !.tenant = tenantId, !.batches = callback]]
    /\ ev' = PEvent("newClient", tenantId, <<>>, 0, TRUE)
    /\ UNCHANGED <<redis, lockVars, rateVars, cacheVars, asideVars, tenantVars, authVars, pubsubVars, pool>>

\* withTenant: await tenantPrisma.$executeRawUnsafe(SET search_path ...); it
\* may throw, which leads to the finally block.
wtSwitch(w, ok) ==
    LET schemaName == generateSchemaName(wt[w].tenant)
    IN  /\ wt[w].pc = "switch"
        /\ IF ok
           THEN /\ \E i \in Candidates(w) :
                      pool' = [pool EXCEPT !.conns[w] = WithConn(w, i, Conn(schemaName, FALSE))]
                /\ wt' = [wt EXCEPT ![w].pc = "callback", ![w].todo = Head(wt[w].batches)]
                /\ ev' = PEvent("switch", wt[w].tenant, schemaName, 0, TRUE)
           ELSE /\ pool' = pool
                /\ wt' = [wt EXCEPT ![w].pc = "finally", ![w].thrown = TRUE]
                /\ ev' = PEvent("switch", wt[w].tenant, <<>>, 0, FALSE)
        /\ UNCHANGED <<redis, lockVars, rateVars, cacheVars, asideVars, tenantVars, authVars, pubsubVars>>

\* A query of the callback (or of the request, on the shared client) starts:
\* it takes a connection of its client and runs under that connection's
\* search_path.
queryStart(w) ==
    LET c == wt[w].client
    IN  /\ wt[w].pc = "callback"
        /\ wt[w].todo > 0
        /\ \E i \in Candidates(c) :
              /\ pool' = [pool EXCEPT !.conns[c] = WithConn(c, i, Conn(PathOf(c, i), TRUE))]
              /\ wt' = [wt EXCEPT ![w].todo = @ - 1, ![w].running = @ \cup {i}]
              /\ ev' = PEvent(IF c = SharedClient THEN "sharedQuery" ELSE "tenantQuery",
                              wt[w].tenant, PathOf(c, i), 0, TRUE)
        /\ UNCHANGED <<redis, lockVars, rateVars, cacheVars, asideVars, tenantVars, authVars, pubsubVars>>

\* A query ends and gives its connection back.  When the batch is complete
\* the next one is issued, or the callback returns; a failed query makes the
\* callback throw.  A request on the shared client ends here.
queryEnd(w, i, ok) ==
    LET c == wt[w].client
        left == wt[w].running \ {i}
        done == ok /\ wt[w].todo = 0 /\ left = {}
        last == Len(wt[w].batches) = 1
        settled == ~ok \/ (done /\ last)
        held == IF ok THEN {i} ELSE wt[w].running
    IN  /\ wt[w].pc = "callback"
        /\ i \in wt[w].running
        /\ pool' = [pool EXCEPT !.conns[c] = Release(pool.conns[c], held)]
        /\ wt' = [wt EXCEPT ![w] =
                    IF settled
                    THEN IF c = SharedClient THEN WtIdle
                         ELSE [@ EXCEPT !.pc = "finally", !.running = {}, !.thrown = ~ok]
                    ELSE IF done
                    THEN [@ EXCEPT !.running = {}, !.batches = Tail(@),
                                   !.todo = Head(Tail(wt[w].batches))]
                    ELSE [@ EXCEPT !.running = left]]
        /\ ev' = IF settled /\ c = SharedClient
                 THEN PEvent("request", wt[w].tenant, <<>>, 0, ok)
                 ELSE PEvent("queryEnd", wt[w].tenant, <<>>, 0, ok)
        /\ UNCHANGED <<redis, lockVars, rateVars, cacheVars, asideVars, tenantVars, authVars, pubsubVars>>

\* withTenant without the finally block: the client is disconnected only
\* when the callback returned.
wtDisconnectOnSuccess(w) ==
    /\ wt[w].pc = "finally"
    /\ pool' = IF wt[w].thrown THEN pool ELSE [pool EXCEPT !.conns[w] = <<>>]
    /\ wt' = [wt EXCEPT ![w] = WtIdle]
    /\ ev' = PEvent("withTenant", wt[w].tenant, <<>>,
                    IF wt[w].thrown THEN 0 ELSE 1, ~wt[w].thrown)
    /\ UNCHANGED <<redis, lockVars, rateVars, cacheVars, asideVars, tenantVars, authVars, pubsubVars>>

\* withTenant: finally { await tenantPrisma.$disconnect() }, then the result
\* of the callback (or the error) goes to the caller.
wtDisconnect(w) ==
    /\ wt[w].pc = "finally"
    /\ pool' = [pool EXCEPT !.conns[w] = <<>>]
    /\ wt' = [wt EXCEPT ![w] = WtIdle]
    /\ ev' = PEvent("withTenant", wt[w].tenant, <<>>, wt[w].closes + 1, ~wt[w].thrown)
    /\ UNCHANGED <<redis, lockVars, rateVars, cacheVars, asideVars, tenantVars, authVars, pubsubVars>>


(***************************************************************************)
(* TenantService: getTenantById and createTenant                           *)
(***************************************************************************)
CACHE_TTL_LONG == 3600

\* REDIS_KEYS.TENANT
TenantKey(id) == <<"tenant:">> \o id

\* From the utils package: a slug is 3 to 63 characters of a-z, 0-9 and "-".
\* A slug is a sequence of characters.
SlugChars ==
    {"a", "b", "c", "d", "e", "f", "g", "h", "i", "j", "k", "l", "m", "n", "o", "p",
     "q", "r", "s", "t", "u", "v", "w", "x", "y", "z",
     "0", "1", "2", "3", "4", "5", "6", "7", "8", "9", "-"}
isValidTenantSlug(slug) ==
    IF Len(slug) \in 3..63 THEN \A i \in 1..Len(slug) : slug[i] \in SlugChars ELSE FALSE

\* The id the database gives the n-th tenant row it is asked to create.
NewId(n) == <<ToString(n)>>

\* The tenant record a lookup returns (the row as findUnique read it),
\* which setJSON serialises field by field; the id is its second token.
TenantValue(row) ==
    JsText(<<"tenant">> \o row.id \o <<"|", row.status, "|">> \o row.slug
           \o <<"|">> \o row.domain \o <<"|">> \o row.customDomain)
TenantIdOf(value) == <<value.v[2]>>

\* if (cached) return cached
Truthy(value) ==
    IF value.kind = "value" THEN value.v # <<>>
    ELSE IF value.kind = "number" THEN value.n # 0
    ELSE FALSE

\* domain: `${data.slug}.${process.env.BASE_DOMAIN || 'swisscommerce.ch'}`
BaseDomain == <<".", "base">>
DomainOf(slug) == slug \o BaseDomain
\* customDomain of a tenant that has none
NoDomain == <<>>

\* The row tenant.create writes: no customDomain, and the status the table
\* gives a new row.
TenantRow(id, slug) ==
    [id |-> id, slug |-> slug, domain |-> DomainOf(slug), customDomain |-> NoDomain,
     status |-> "active"]

\* The unique indexes of the tenant table: slug (findUnique looks rows up by
\* it), domain and customDomain (null excepted).  True when writing row
\* would collide with another tenant's row.
UniqueViolationNever(rows, row) == FALSE

UniqueViolation(rows, row) ==
    \E other \in rows :
        /\ other.id # row.id
        /\ IF other.slug = row.slug THEN TRUE
           ELSE IF other.domain = row.domain THEN TRUE
           ELSE IF row.customDomain = NoDomain THEN FALSE
           ELSE other.customDomain = row.customDomain
SlugTaken(slug) == \E row \in db.tenants : row.slug = slug
HasRow(id) == \E row \in db.tenants : row.id = id

SchemaPut(schemas, name, state) ==
    [x \in (DOMAIN schemas) \cup {name} |-> IF x = name THEN state ELSE schemas[x]]

\* A namespace: the tables and indexes it holds, and the number of rows the
\* tenant has stored in its tables.
EmptySchema == [objects |-> {}, rows |-> 0]

\* migrateTenantSchema: the statements of const queries, in order; each names
\* the object it creates and says whether it carries IF NOT EXISTS.
migrationQueriesUnguarded(schemaName) ==
    << [object |-> "products", ifNotExists |-> FALSE],
       [object |-> "product_variants", ifNotExists |-> FALSE],
       [object |-> "idx_products_handle", ifNotExists |-> FALSE],
       [object |-> "idx_products_status", ifNotExists |-> FALSE],
       [object |-> "idx_variants_sku", ifNotExists |-> FALSE] >>

migrationQueries(schemaName) ==
    << [object |-> "products", ifNotExists |-> TRUE],
       [object |-> "product_variants", ifNotExists |-> TRUE],
       [object |-> "idx_products_handle", ifNotExists |-> TRUE],
       [object |-> "idx_products_status", ifNotExists |-> TRUE],
       [object |-> "idx_variants_sku", ifNotExists |-> TRUE] >>

SchemaObjects == {migrationQueries(<<>>)[i].object : i \in DOMAIN migrationQueries(<<>>)}

\* for (const query of queries) await $executeRawUnsafe(query): the objects
\* after the loop, and how it ended.  A statement without IF NOT EXISTS fails
\* on an object that exists ("exists"); the statement numbered failAt fails
\* for a reason of the database's ("provision"; failAt = 0: none does).
RECURSIVE RunQueries(_, _, _, _)
RunQueries(objects, queries, i, failAt) ==
    IF i > Len(queries) THEN [objects |-> objects, err |-> "none"]
    ELSE IF i = failAt THEN [objects |-> objects, err |-> "provision"]
    ELSE IF queries[i].object \in objects
         THEN IF queries[i].ifNotExists
              THEN RunQueries(objects, queries, i + 1, failAt)
              ELSE [objects |-> objects, err |-> "exists"]
    ELSE RunQueries(objects \cup {queries[i].object}, queries, i + 1, failAt)

\* No row read yet.
NoRow == [id |-> <<>>, slug |-> <<>>, domain |-> <<>>, customDomain |-> <<>>,
          status |-> "none"]
RowOf(id) == CHOOSE row \in db.tenants : row.id = id


\* What a record read by getTenantById carries besides the tenant's own
\* columns (include: {subscription: {include: {plan: true}}}): whether it
\* has a subscription, whether that has a plan, and the plan's limits, a
\* JSON object read by resource name (a name it lacks reads as undefined).
JsUndefined == [kind |-> "undefined", v |-> <<>>, n |-> 0]
Unlimited == JsText(<<"unlimited">>)
Resources == {"products", "orders"}
NoLimits == [r \in Resources |-> JsUndefined]
NoSubscription == [subscription |-> FALSE, plan |-> FALSE, limits |-> NoLimits]
NoPlan == [subscription |-> TRUE, plan |-> FALSE, limits |-> NoLimits]
LimitValues == {JsNumber(n) : n \in 0..MaxPlanLimit} \cup {Unlimited, JsNull}
Subscriptions ==
    {NoSubscription, NoPlan}
        \cup {[subscription |-> TRUE, plan |-> TRUE, limits |-> limits] :
                 limits \in {NoLimits} \cup {[NoLimits EXCEPT !["products"] = v] :
                                                v \in LimitValues}}
NoCall == [resource |-> "none", current |-> 0, sub |-> NoSubscription]

\* current <= limit.
JsLessOrEqual(current, limit) ==
    IF limit.kind = "number" THEN current <= limit.n
    ELSE IF limit.kind = "null" THEN current <= 0
    ELSE FALSE

\* current < limit of JavaScript, current a number: the limit is converted
\* to a number (null to 0, undefined and text that is no numeral to NaN),
\* and a comparison with NaN is false.
JsLess(current, limit) ==
    IF limit.kind = "number" THEN current < limit.n
    ELSE IF limit.kind = "null" THEN current < 0
    ELSE FALSE

\* checkTenantLimit, after its getTenantById returned tenant:
\* if (!tenant || !tenant.subscription?.plan) return {allowed: false, limit: 0};
\* const limit = limits[resource];
\* if (limit === 'unlimited') return {allowed: true, limit: 'unlimited'};
\* return {allowed: current < limit, limit}
LimitResult(tenant, call) ==
    IF IF ~Truthy(tenant) THEN TRUE ELSE ~(call.sub.subscription /\ call.sub.plan)
    THEN [allowed |-> FALSE, limit |-> JsNumber(0)]
    ELSE LET limit == call.sub.limits[call.resource]
         IN  IF limit = Unlimited
             THEN [allowed |-> TRUE, limit |-> Unlimited]
             ELSE [allowed |-> JsLess(call.current, limit), limit |-> limit]

TsIdle == [pc |-> "idle", op |-> "none", slug |-> <<>>, id |-> <<>>, taken |-> 0,
           row |-> NoRow, arg |-> NoCall]

\* The event of a TenantService step: the call, the slug given (key), the
\* tenant id concerned (tenant), the value returned or the step that failed
\* (err), and whether a tenant with the slug existed when the call began (arg).
TEvent(op, slug, id, val, err, taken) ==
    [NoEvent EXCEPT !.op = op, !.key = slug, !.tenant = id, !.val = val,
                    !.err = err, !.ok = (err = "none"), !.arg = taken]

TsFrame ==
    UNCHANGED <<lockVars, rateVars, cacheVars, storeUp, gos, made, served, prismaVars,
                authVars, pubsubVars>>

Creating == Cardinality({w \in Workers : ts[w].pc = "tx"})

\* createTenant that does not look the slug up first.
createTenantNoLookup(w, slug) ==
    LET taken == IF SlugTaken(slug) THEN 1 ELSE 0
    IN  /\ ts[w].pc = "idle"
        /\ db.made + Creating < MaxCreates
        /\ UNCHANGED <<redis, db>>
        /\ IF ~isValidTenantSlug(slug)
           THEN /\ ts' = ts
                /\ ev' = TEvent("createTenant", slug, <<>>, JsNull, "validation", taken)
           ELSE /\ ts' = [ts EXCEPT ![w] = [TsIdle EXCEPT !.pc = "tx", !.op = "createTenant",
                                                         !.slug = slug, !.taken = taken]]
                /\ ev' = TEvent("getTenantBySlug", slug, <<>>, JsNull, "none", taken)
        /\ TsFrame

\* createTenant: isValidTenantSlug, then existing = await getTenantBySlug(slug)
createTenant(w, slug) ==
    LET taken == IF SlugTaken(slug) THEN 1 ELSE 0
    IN  /\ ts[w].pc = "idle"
        /\ db.made + Creating < MaxCreates
        /\ UNCHANGED <<redis, db>>
        /\ IF ~isValidTenantSlug(slug)
           THEN /\ ts' = ts
                /\ ev' = TEvent("createTenant", slug, <<>>, JsNull, "validation", taken)
           ELSE IF SlugTaken(slug)
           THEN /\ ts' = ts
                /\ ev' = TEvent("createTenant", slug, <<>>, JsNull, "conflict", taken)
           ELSE /\ ts' = [ts EXCEPT ![w] = [TsIdle EXCEPT !.pc = "tx", !.op = "createTenant",
                                                         !.slug = slug, !.taken = taken]]
                /\ ev' = TEvent("getTenantBySlug", slug, <<>>, JsNull, "none", taken)
        /\ TsFrame

\* createTenant: $transaction(tenant.create, subscription.create).  Creating
\* a row that collides on a unique index fails (the slug was taken
\* meanwhile); either create may fail otherwise; a failed transaction leaves
\* no row.
ctTransaction(w, outcome) ==
    LET t == ts[w]
        id == NewId(db.made + 1)
    IN  /\ t.pc = "tx"
        /\ redis' = redis
        /\ IF UniqueViolation(db.tenants, TenantRow(id, t.slug))
           THEN /\ db' = [db EXCEPT !.made = @ + 1]
                /\ ts' = [ts EXCEPT ![w] = TsIdle]
                /\ ev' = TEvent("createTenant", t.slug, id, JsNull, "tenant", t.taken)
           ELSE IF outcome # "commit"
           THEN /\ db' = [db EXCEPT !.made = @ + 1]
                /\ ts' = [ts EXCEPT ![w] = TsIdle]
                /\ ev' = TEvent("createTenant", t.slug, id, JsNull, outcome, t.taken)
           ELSE /\ db' = [db EXCEPT !.made = @ + 1,
                                    !.tenants = @ \cup {TenantRow(id, t.slug)},
                                    !.subs = @ \cup {id}]
                /\ ts' = [ts EXCEPT ![w].pc = "schema", ![w].id = id]
                /\ ev' = TEvent("transaction", t.slug, id, JsNull, "none", t.taken)
        /\ TsFrame

\* PrismaService.createTenantSchema called on its own (a repair or a repeated
\* provisioning); taken records whether the namespace existed already.
createTenantSchema(w, tenantId) ==
    /\ ts[w].pc = "idle"
    /\ UNCHANGED <<redis, db>>
    /\ ts' = [ts EXCEPT ![w] =
                [TsIdle EXCEPT !.pc = "schema", !.op = "createTenantSchema", !.id = tenantId,
                               !.taken = IF generateSchemaName(tenantId) \in DOMAIN db.schemas
                                         THEN 1 ELSE 0]]
    /\ ev' = TEvent("provision", <<>>, tenantId, JsNull, "none", 0)
    /\ TsFrame

\* createTenantSchema: CREATE SCHEMA IF NOT EXISTS
ctCreateSchema(w, ok) ==
    LET t == ts[w]
        schemaName == generateSchemaName(t.id)
    IN  /\ t.pc = "schema"
        /\ redis' = redis
        /\ IF ok
           THEN /\ db' = [db EXCEPT !.schemas =
                            IF schemaName \in DOMAIN @ THEN @
                            ELSE SchemaPut(@, schemaName, EmptySchema)]
                /\ ts' = [ts EXCEPT ![w].pc = "grant"]
                /\ ev' = [TEvent("createSchema", t.slug, t.id, JsNull, "none", t.taken)
                             EXCEPT !.key = schemaName]
           ELSE /\ db' = db
                /\ ts' = [ts EXCEPT ![w] = TsIdle]
                /\ ev' = TEvent(t.op, t.slug, t.id, JsNull, "provision", t.taken)
        /\ TsFrame

\* createTenantSchema: GRANT ALL ON SCHEMA
ctGrant(w, ok) ==
    LET t == ts[w]
    IN  /\ t.pc = "grant"
        /\ UNCHANGED <<redis, db>>
        /\ IF ok
           THEN /\ ts' = [ts EXCEPT ![w].pc = "migrate"]
                /\ ev' = TEvent("grant", t.slug, t.id, JsNull, "none", t.taken)
           ELSE /\ ts' = [ts EXCEPT ![w] = TsIdle]
                /\ ev' = TEvent(t.op, t.slug, t.id, JsNull, "provision", t.taken)
        /\ TsFrame

\* createTenantSchema: migrateTenantSchema runs its CREATE TABLE / CREATE
\* INDEX statements one by one; a failure leaves the objects created so far.
\* Without the namespace (dropped meanwhile) the first statement fails.
ctMigrate(w, failAt) ==
    LET t == ts[w]
        schemaName == generateSchemaName(t.id)
        present == schemaName \in DOMAIN db.schemas
        run == RunQueries(IF present THEN db.schemas[schemaName].objects ELSE {},
                          migrationQueries(schemaName), 1, IF present THEN failAt ELSE 1)
    IN  /\ t.pc = "migrate"
        /\ redis' = redis
        /\ db' = IF present THEN [db EXCEPT !.schemas[schemaName].objects = run.objects]
                 ELSE db
        /\ IF run.err # "none"
           THEN /\ ts' = [ts EXCEPT ![w] = TsIdle]
                /\ ev' = TEvent(t.op, t.slug, t.id, JsNull, run.err, t.taken)
           ELSE IF t.op = "createTenantSchema"
           THEN /\ ts' = [ts EXCEPT ![w] = TsIdle]
                /\ ev' = [TEvent(t.op, t.slug, t.id, JsNull, "none", t.taken)
                             EXCEPT !.key = schemaName]
           ELSE /\ ts' = [ts EXCEPT ![w].pc = "del"]
                /\ ev' = TEvent("migrate", t.slug, t.id, JsNull, "none", t.taken)
        /\ TsFrame

\* deleteTenantSchema: DROP SCHEMA IF EXISTS ... CASCADE
deleteTenantSchema(w, tenantId) ==
    LET schemaName == generateSchemaName(tenantId)
    IN  /\ ts[w].pc = "idle"
        /\ UNCHANGED <<redis, ts>>
        /\ db' = [db EXCEPT !.schemas =
                    [x \in (DOMAIN @) \ {schemaName} |-> @[x]]]
        /\ ev' = [TEvent("deleteTenantSchema", <<>>, tenantId, JsNull, "none", 0)
                     EXCEPT !.key = schemaName]
        /\ TsFrame

\* A query of the tenant's that stores a row in its products table.
tenantWrites(tenantId) ==
    LET schemaName == generateSchemaName(tenantId)
    IN  /\ schemaName \in DOMAIN db.schemas
        /\ "products" \in db.schemas[schemaName].objects
        /\ db.schemas[schemaName].rows < MaxRows
        /\ db' = [db EXCEPT !.schemas[schemaName].rows = @ + 1]
        /\ ev' = [TEvent("insert", <<>>, tenantId, JsNull, "none", 0)
                     EXCEPT !.key = schemaName]
        /\ UNCHANGED <<redis, ts>>
        /\ TsFrame

\* updateTenant: tenant.update({where: {id}, data}) with data setting one
\* field; it fails when no row has the id and when the new row collides on a
\* unique index.
TenantUpdate(w, op, tenantId, field, value) ==
    LET rows == {row \in db.tenants : row.id = tenantId}
        old == CHOOSE row \in rows : TRUE
        new == [old EXCEPT ![field] = value]
    IN  /\ ts[w].pc = "idle"
        /\ redis' = redis
        /\ IF rows = {}
           THEN /\ UNCHANGED <<db, ts>>
                /\ ev' = TEvent(op, <<>>, tenantId, JsNull, "notfound", 0)
           ELSE IF UniqueViolation(db.tenants, new)
           THEN /\ UNCHANGED <<db, ts>>
                /\ ev' = TEvent(op, <<>>, tenantId, JsNull, "conflict", 0)
           ELSE /\ db' = [db EXCEPT !.tenants = (@ \ {old}) \cup {new}]
                /\ ts' = [ts EXCEPT ![w] = [TsIdle EXCEPT !.pc = "del", !.op = op,
                                                         !.id = tenantId]]
                /\ ev' = TEvent("update", <<>>, tenantId, JsNull, "none", 0)
        /\ TsFrame

updateTenant(w, tenantId, field, value) ==
    TenantUpdate(w, "updateTenant", tenantId, field, value)

\* delete whose update removes the row and drops the namespace.
tenantDeleteHard(w, tenantId) ==
    LET schemaName == generateSchemaName(tenantId)
    IN  /\ ts[w].pc = "idle"
        /\ HasRow(tenantId)
        /\ redis' = redis
        /\ db' = [db EXCEPT !.tenants = {row \in @ : row.id # tenantId},
                            !.schemas = [x \in (DOMAIN @) \ {schemaName} |-> @[x]]]
        /\ ts' = [ts EXCEPT ![w] = [TsIdle EXCEPT !.pc = "del", !.op = "delete",
                                                 !.id = tenantId]]
        /\ ev' = TEvent("update", <<>>, tenantId, JsNull, "none", 0)
        /\ TsFrame

\* delete: await this.updateTenant(tenantId, {status: 'deleted'})
tenantDelete(w, tenantId) ==
    TenantUpdate(w, "delete", tenantId, "status", "deleted")

\* createTenant, updateTenant: await this.redis.del(REDIS_KEYS.TENANT(id))
ctClearCache(w) ==
    LET t == ts[w]
    IN  /\ t.pc = "del"
        /\ db' = db
        /\ IF storeUp
           THEN /\ redis' = RedisDel(redis, {TenantKey(t.id)})
                /\ ts' = [ts EXCEPT ![w].pc = "get"]
                /\ ev' = TEvent("del", t.slug, t.id, JsNull, "none", t.taken)
           ELSE /\ redis' = redis
                /\ ts' = [ts EXCEPT ![w] = TsIdle]
                /\ ev' = TEvent(t.op, t.slug, t.id, JsNull, "store", t.taken)
        /\ TsFrame

\* getTenantConfig: schemaName: generateSchemaName(tenant.id), with the id of
\* the tenant record getTenantById returned.
ConfigSchemaFromSlug(value) ==
    LET rows == {row \in db.tenants : row.id = TenantIdOf(value)}
    IN  <<"tenant_">> \o (CHOOSE row \in rows : TRUE).slug

ConfigSchema(value) == generateSchemaName(TenantIdOf(value))

\* What the caller of getTenantById does with the value it returned:
\* getTenantById, createTenant and updateTenant return it; getTenantConfig
\* throws on null and derives the config; delete goes on to its own del.
Returned(w, op, slug, id, value, taken) ==
    IF op = "delete"
    THEN /\ ts' = [ts EXCEPT ![w] = [TsIdle EXCEPT !.pc = "del2", !.op = op, !.id = id]]
         /\ ev' = TEvent("updateTenant", slug, id, value, "none", taken)
    ELSE IF op = "getTenantConfig"
    THEN /\ ts' = [ts EXCEPT ![w] = TsIdle]
         /\ ev' = IF value = JsNull
                  THEN TEvent(op, slug, id, JsNull, "notfound", taken)
                  ELSE [TEvent(op, slug, id, value, "none", taken)
                           EXCEPT !.key = ConfigSchema(value)]
    ELSE IF op = "checkTenantLimit"
    THEN LET result == LimitResult(value, ts[w].arg)
         IN  /\ ts' = [ts EXCEPT ![w] = TsIdle]
             /\ ev' = [TEvent(op, slug, id, result.limit, "none", ts[w].arg.current)
                          EXCEPT !.ok = result.allowed]
    ELSE /\ ts' = [ts EXCEPT ![w] = TsIdle]
         /\ ev' = TEvent(op, slug, id, value, "none", taken)

\* getTenantById: const cached = await this.redis.getJSON(cacheKey);
\* if (cached) return cached
LookupGet(w, op, id, slug, taken) ==
    LET cached == getJSON(redis, TenantKey(id))
    IN  /\ UNCHANGED <<redis, db>>
        /\ IF ~storeUp
           THEN /\ ts' = [ts EXCEPT ![w] = TsIdle]
                /\ ev' = TEvent(op, slug, id, JsNull, "store", taken)
           ELSE IF cached.kind = "error"
           THEN /\ ts' = [ts EXCEPT ![w] = TsIdle]
                /\ ev' = TEvent(op, slug, id, JsNull, "wrongtype", taken)
           ELSE IF Truthy(cached)
           THEN Returned(w, op, slug, id, cached, taken)
           ELSE /\ ts' = [ts EXCEPT ![w] = [TsIdle EXCEPT !.pc = "find", !.op = op, !.id = id,
                                                         !.slug = slug, !.taken = taken,
                                                         !.arg = ts[w].arg]]
                /\ ev' = TEvent("getJSON", slug, id, JsNull, "none", taken)
        /\ TsFrame

getTenantById(w, tenantId) ==
    /\ ts[w].pc = "idle"
    /\ LookupGet(w, "getTenantById", tenantId, <<>>, 0)

\* getTenantConfig: const tenant = await this.getTenantById(tenantId)
getTenantConfig(w, tenantId) ==
    /\ ts[w].pc = "idle"
    /\ LookupGet(w, "getTenantConfig", tenantId, <<>>, 0)

\* checkTenantLimit(tenantId, resource, current) is called; sub is what the
\* record its getTenantById will return carries as subscription.
checkTenantLimit(w, tenantId, resource, current, sub) ==
    /\ ts[w].pc = "idle"
    /\ ts' = [ts EXCEPT ![w] = [TsIdle EXCEPT !.pc = "get", !.op = "checkTenantLimit",
                                              !.id = tenantId,
                                              !.arg = [resource |-> resource,
                                                       current |-> current,
                                                       sub |-> sub]]]
    /\ ev' = [TEvent("call", <<>>, tenantId, JsNull, "none", current)
                 EXCEPT !.ok = FALSE]
    /\ UNCHANGED <<redis, db>>
    /\ TsFrame

\* createTenant, updateTenant: return this.getTenantById(id);
\* checkTenantLimit: const tenant = await this.getTenantById(tenantId)
ctGetTenant(w) ==
    /\ ts[w].pc = "get"
    /\ LookupGet(w, ts[w].op, ts[w].id, ts[w].slug, ts[w].taken)

\* getTenantById: tenant = await findUnique({where: {id}}); if (!tenant) return null
gtFind(w) ==
    LET t == ts[w]
    IN  /\ t.pc = "find"
        /\ UNCHANGED <<redis, db>>
        /\ IF HasRow(t.id)
           THEN /\ ts' = [ts EXCEPT ![w].pc = "cache", ![w].row = RowOf(t.id)]
                /\ ev' = TEvent("findUnique", t.slug, t.id, TenantValue(RowOf(t.id)),
                                "none", t.taken)
           ELSE Returned(w, t.op, t.slug, t.id, JsNull, t.taken)
        /\ TsFrame

\* getTenantById: await this.redis.setJSON(cacheKey, tenant, CACHE_TTL.LONG);
\* return tenant
gtCache(w) ==
    LET t == ts[w]
    IN  /\ t.pc = "cache"
        /\ db' = db
        /\ IF storeUp
           THEN /\ redis' = setJSON(redis, TenantKey(t.id), TenantValue(t.row), CACHE_TTL_LONG)
                /\ Returned(w, t.op, t.slug, t.id, TenantValue(t.row), t.taken)
           ELSE /\ redis' = redis
                /\ ts' = [ts EXCEPT ![w] = TsIdle]
                /\ ev' = TEvent(t.op, t.slug, t.id, JsNull, "store", t.taken)
        /\ TsFrame

\* delete: await this.redis.del(REDIS_KEYS.TENANT(tenantId)), its own
tdClearCache(w) ==
    LET t == ts[w]
    IN  /\ t.pc = "del2"
        /\ db' = db
        /\ ts' = [ts EXCEPT ![w] = TsIdle]
        /\ IF storeUp
           THEN /\ redis' = RedisDel(redis, {TenantKey(t.id)})
                /\ ev' = TEvent("delete", <<>>, t.id, JsNull, "none", 0)
           ELSE /\ redis' = redis
                /\ ev' = TEvent("delete", <<>>, t.id, JsNull, "store", 0)
        /\ TsFrame

\* From the utils package.  isCustomDomain: the host is not a subdomain of
\* the base domain.  extractTenantFromHost: the first label of a host that
\* has a subdomain, else null (the empty sequence).
EndsWith(host, suffix) ==
    IF Len(host) > Len(suffix)
    THEN SubSeq(host, Len(host) - Len(suffix) + 1, Len(host)) = suffix
    ELSE FALSE
isCustomDomain(host, baseDomain) == ~EndsWith(host, baseDomain)

RECURSIVE FirstLabel(_)
FirstLabel(host) ==
    IF host = <<>> THEN <<>>
    ELSE IF Head(host) = "." THEN <<>>
    ELSE <<Head(host)>> \o FirstLabel(Tail(host))
extractTenantFromHost(host) ==
    IF \E i \in DOMAIN host : host[i] = "." THEN FirstLabel(host) ELSE <<>>

\* getTenantByDomain: findFirst({where: {OR: [{domain}, {customDomain: domain}]}})
\* returns one of the matching rows, or null.  getTenantBySlug: the row with
\* the slug, or null.  A result is a tenant id; the empty sequence is null.
NotFound == <<>>
OrNull(rows) == IF rows = {} THEN {NotFound} ELSE {row.id : row \in rows}
getTenantByDomain(domain) ==
    OrNull({row \in db.tenants :
              IF row.domain = domain THEN TRUE ELSE row.customDomain = domain})
getTenantBySlug(slug) == OrNull({row \in db.tenants : row.slug = slug})

\* resolveTenant(host, baseDomain)
ResolveResults(host, baseDomain) ==
    IF isCustomDomain(host, baseDomain) THEN getTenantByDomain(host)
    ELSE IF extractTenantFromHost(host) = <<>> THEN {NotFound}
    ELSE getTenantBySlug(extractTenantFromHost(host))

resolveTenant(w, host, baseDomain, result) ==
    /\ ts[w].pc = "idle"
    /\ result \in ResolveResults(host, baseDomain)
    /\ UNCHANGED <<redis, db, ts>>
    /\ ev' = [TEvent("resolveTenant", <<>>, result,
                     IF result = NotFound THEN JsNull ELSE TenantValue(RowOf(result)),
                     "none", 0)
                 EXCEPT !.key = host]
    /\ TsFrame


(***************************************************************************)
(* AuthService: refresh tokens, email verification tokens, 2FA codes and   *)
(* sessions, all kept in Redis                                             *)
(***************************************************************************)
Users == {<<"u">>, <<"v">>}

RefreshKey(userId) == <<"refresh_token:">> \o userId
EmailKey(token) == <<"email_verify:">> \o token
TwoFaKey(userId) == <<"2fa:">> \o userId
SessionKey(sessionId) == <<"session:">> \o sessionId

\* From the utils package: generateToken(32) returns a random token; the
\* n-th token it returns differs from all before it.
generateToken(n) == <<"tok", ToString(n)>>
RandomTokens == {generateToken(n) : n \in 1..MaxTokens}
\* The tokens returned so far; a caller presents no token before it exists.
IssuedTokens == {generateToken(n) : n \in 1..audit.tokens}

AuIdle == [pc |-> "idle", op |-> "none", key |-> <<>>, subject |-> <<>>,
           data |-> JsNull, gen |-> 0]

\* The event of an AuthService step: the call, the user, token or session it
\* is about (tenant), the token or code presented (key), what it returned.
AEvent(op, subject, key, val, ok) ==
    [NoEvent EXCEPT !.op = op, !.tenant = subject, !.key = key, !.val = val, !.ok = ok]

AuFrame ==
    UNCHANGED <<lockVars, rateVars, cacheVars, asideVars, prismaVars, tenantVars,
                pubsubVars>>

\* jwt.sign({sub, tenantId}, refreshSecret, {expiresIn, issuer}): the token
\* is a function of the user and of the second it is signed in (iat), so two
\* tokens signed for one user in one second are the same string.
RefreshToken(userId, iat) == <<"jwt">> \o userId \o <<ToString(iat)>>
ForgedToken == <<"bad", "u", "1">>
\* jwt.verify(token, refreshSecret): the signature holds for the tokens
\* jwt.sign made; payload.sub is the user the token was signed for.
SignatureHolds(token) == Head(token) = "jwt"
TokenSub(token) == SubSeq(token, 2, Len(token) - 1)

\* verifyRefreshToken accepting every token that carries a valid signature.
RefreshAcceptedBySignature(r, token) == SignatureHolds(token)

\* verifyRefreshToken: jwt.verify, then storedToken = await redis.get(key);
\* if (storedToken !== token) throw
RefreshAccepted(r, token) ==
    IF ~SignatureHolds(token) THEN FALSE
    ELSE LET storedToken == RedisGet(r, RefreshKey(TokenSub(token)))
         IN  IF storedToken.kind = "text" THEN storedToken.s = token ELSE FALSE

\* generateTokens: sign, then redis.set(`refresh_token:${sub}`, refreshToken,
\* CACHE_TTL.WEEK).  sameSecond: the call signs in the second in which the
\* stored token was signed, which needs that token to be stored with its
\* whole week left.
generateTokens(w, userId, sameSecond) ==
    LET iat == IF sameSecond THEN audit.iat[userId] ELSE audit.iat[userId] + 1
        refreshToken == RefreshToken(userId, iat)
    IN  /\ au[w].pc = "idle"
        /\ IF sameSecond
           THEN IF audit.iat[userId] > 0
                THEN RedisTtl(redis, RefreshKey(userId)) = CACHE_TTL_WEEK
                ELSE FALSE
           ELSE audit.iat[userId] < MaxIssued
        /\ redis' = RedisSet(redis, RefreshKey(userId), refreshToken, CACHE_TTL_WEEK)
        /\ audit' = [audit EXCEPT !.iat[userId] = iat, !.latest[userId] = refreshToken]
        /\ ev' = AEvent("generateTokens", userId, refreshToken, JsText(refreshToken), TRUE)
        /\ UNCHANGED au
        /\ AuFrame

verifyRefreshToken(w, token) ==
    /\ au[w].pc = "idle"
    /\ ev' = AEvent("verifyRefreshToken",
                    IF SignatureHolds(token) THEN TokenSub(token) ELSE <<>>,
                    token, JsNull, RefreshAccepted(redis, token))
    /\ UNCHANGED <<redis, au, audit>>
    /\ AuFrame

\* revokeRefreshToken: await this.redis.del(`refresh_token:${userId}`)
revokeRefreshToken(w, userId) ==
    /\ au[w].pc = "idle"
    /\ redis' = RedisDel(redis, {RefreshKey(userId)})
    /\ audit' = [audit EXCEPT !.latest[userId] = <<>>]
    /\ ev' = AEvent("revokeRefreshToken", userId, <<>>, JsNull, TRUE)
    /\ UNCHANGED au
    /\ AuFrame

\* generateEmailVerificationToken: setJSON(`email_verify:${token}`,
\* {email, tenantId}, CACHE_TTL.DAY); return token
generateEmailVerificationToken(w, email, tenantId) ==
    LET token == generateToken(audit.tokens + 1)
    IN  /\ au[w].pc = "idle"
        /\ audit.tokens < MaxTokens
        /\ redis' = setJSON(redis, EmailKey(token), JsText(email \o <<"|">> \o tenantId),
                            CACHE_TTL_DAY)
        /\ audit' = [audit EXCEPT !.tokens = @ + 1]
        /\ ev' = AEvent("generateEmailVerificationToken", token, token, JsNull, TRUE)
        /\ UNCHANGED au
        /\ AuFrame

\* verifyEmailToken: const data = await this.redis.getJSON(key); without
\* data the call returns null
verifyEmailToken(w, token) ==
    LET data == getJSON(redis, EmailKey(token))
    IN  /\ au[w].pc = "idle"
        /\ UNCHANGED <<redis, audit>>
        /\ IF Truthy(data)
           THEN /\ au' = [au EXCEPT ![w] = [AuIdle EXCEPT !.pc = "del", !.op = "verifyEmailToken",
                                                        !.subject = token, !.data = data]]
                /\ ev' = AEvent("getJSON", token, token, data, TRUE)
           ELSE /\ au' = au
                /\ ev' = AEvent("verifyEmailToken", token, token, JsNull, TRUE)
        /\ AuFrame

\* verifyEmailToken: if (data) await this.redis.del(key); return data
veDel(w) ==
    LET a == au[w]
    IN  /\ a.pc = "del"
        /\ redis' = RedisDel(redis, {EmailKey(a.subject)})
        /\ au' = [au EXCEPT ![w] = AuIdle]
        /\ audit' = [audit EXCEPT !.verified[a.subject] = @ + 1]
        /\ ev' = AEvent("verifyEmailToken", a.subject, a.subject, a.data, TRUE)
        /\ AuFrame

\* From the utils package: generateSecureCode(6) returns a random code of
\* six digits, which may repeat an earlier one.
Codes == {<<"111111">>, <<"222222">>}
TwoFaTtl == 300

\* storedCode === code
CodeMatches(r, userId, code) ==
    LET storedCode == RedisGet(r, TwoFaKey(userId))
    IN  IF storedCode.kind = "text" THEN storedCode.s = code ELSE FALSE

\* generate2FACode: redis.set(`2fa:${userId}`, code, 300); return code
generate2FACode(w, userId, code) ==
    /\ au[w].pc = "idle"
    /\ audit.gen[userId] < MaxCodes
    /\ redis' = RedisSet(redis, TwoFaKey(userId), code, TwoFaTtl)
    /\ audit' = [audit EXCEPT !.gen[userId] = @ + 1, !.code[userId] = code]
    /\ ev' = AEvent("generate2FACode", userId, code, JsText(code), TRUE)
    /\ UNCHANGED au
    /\ AuFrame

\* verify2FACode: const storedCode = await this.redis.get(key); a code that
\* differs returns false
verify2FACode(w, userId, code) ==
    /\ au[w].pc = "idle"
    /\ UNCHANGED <<redis, audit>>
    /\ IF CodeMatches(redis, userId, code)
       THEN /\ au' = [au EXCEPT ![w] = [AuIdle EXCEPT !.pc = "delCode", !.op = "verify2FACode",
                                                    !.subject = userId, !.key = code,
                                                    !.gen = audit.gen[userId]]]
            /\ ev' = AEvent("get", userId, code, JsText(code), TRUE)
       ELSE /\ au' = au
            /\ ev' = AEvent("verify2FACode", userId, code, JsNull, FALSE)
    /\ AuFrame

\* verify2FACode: await this.redis.del(key); return true
vcDel(w) ==
    LET a == au[w]
    IN  /\ a.pc = "delCode"
        /\ redis' = RedisDel(redis, {TwoFaKey(a.subject)})
        /\ au' = [au EXCEPT ![w] = AuIdle]
        /\ audit' = [audit EXCEPT !.accepted[a.subject][a.gen] = @ + 1]
        /\ ev' = [AEvent("verify2FACode", a.subject, a.key, JsNull, TRUE) EXCEPT !.arg = a.gen]
        /\ AuFrame

\* The session record: the user with createdAt and lastActivityAt.
SessionValue(userId) == JsText(<<"session">> \o userId)

\* createSession: setJSON(`session:${sessionId}`, {...}, CACHE_TTL.DAY)
createSession(w, userId) ==
    LET sessionId == generateToken(audit.tokens + 1)
    IN  /\ au[w].pc = "idle"
        /\ audit.tokens < MaxTokens
        /\ redis' = setJSON(redis, SessionKey(sessionId), SessionValue(userId), CACHE_TTL_DAY)
        /\ audit' = [audit EXCEPT !.tokens = @ + 1]
        /\ ev' = AEvent("createSession", sessionId, <<>>, SessionValue(userId), TRUE)
        /\ UNCHANGED au
        /\ AuFrame

\* getSession: const session = await this.redis.getJSON(key); without a
\* session the call returns null
getSession(w, sessionId) ==
    LET session == getJSON(redis, SessionKey(sessionId))
    IN  /\ au[w].pc = "idle"
        /\ UNCHANGED <<redis, audit>>
        /\ IF Truthy(session)
           THEN /\ au' = [au EXCEPT ![w] = [AuIdle EXCEPT !.pc = "touch", !.op = "getSession",
                                                        !.subject = sessionId,
                                                        !.data = session]]
                /\ ev' = AEvent("getJSON", sessionId, <<>>, session, TRUE)
           ELSE /\ au' = au
                /\ ev' = AEvent("getSession", sessionId, <<>>, JsNull, TRUE)
        /\ AuFrame

\* getSession: session.lastActivityAt = ...; await this.redis.setJSON(key,
\* session, CACHE_TTL.DAY); return the user
gsTouch(w) ==
    LET a == au[w]
    IN  /\ a.pc = "touch"
        /\ redis' = setJSON(redis, SessionKey(a.subject), a.data, CACHE_TTL_DAY)
        /\ au' = [au EXCEPT ![w] = AuIdle]
        /\ ev' = AEvent("getSession", a.subject, <<>>, a.data, TRUE)
        /\ UNCHANGED audit
        /\ AuFrame

\* destroySession: await this.redis.del(`session:${sessionId}`)
destroySession(w, sessionId) ==
    /\ au[w].pc = "idle"
    /\ redis' = RedisDel(redis, {SessionKey(sessionId)})
    /\ audit' = [audit EXCEPT !.destroyed = @ \cup {sessionId}]
    /\ ev' = AEvent("destroySession", sessionId, <<>>, JsNull, TRUE)
    /\ UNCHANGED au
    /\ AuFrame

InitAuth ==
    /\ au = [w \in Workers |-> AuIdle]
    /\ audit = [iat |-> [u \in Users |-> 0], latest |-> [u \in Users |-> <<>>],
                tokens |-> 0, verified |-> [t \in RandomTokens |-> 0],
                gen |-> [u \in Users |-> 0], code |-> [u \in Users |-> <<>>],
                accepted |-> [u \in Users |-> [g \in 0..MaxCodes |-> 0]],
                destroyed |-> {}]

(***************************************************************************)
(* RedisService pub/sub: the subscriber connection and its listeners       *)
(***************************************************************************)
Channels == {<<"c">>, <<"d">>}
Handlers == {"f", "g"}

\* How many 'message' listeners the subscriber connection carries.
ListenerCount(listeners) ==
    LET perChannel(ch) ==
            LET RECURSIVE Sum(_)
                Sum(H) == IF H = {} THEN 0
                          ELSE LET h == CHOOSE x \in H : TRUE
                               IN  listeners[ch][h] + Sum(H \ {h})
            IN  Sum(Handlers)
        RECURSIVE Total(_)
        Total(C) == IF C = {} THEN 0
                    ELSE LET c == CHOOSE x \in C : TRUE IN perChannel(c) + Total(C \ {c})
    IN  Total(Channels)

PsFrame ==
    UNCHANGED <<redis, lockVars, rateVars, cacheVars, asideVars, prismaVars, tenantVars,
                authVars>>

PEventOf(op, channel, ret) == [NoEvent EXCEPT !.op = op, !.key = channel, !.ret = ret, !.ok = TRUE]

\* subscribe: await this.subscriber.subscribe(channel)
subscribe(channel, callback) ==
    /\ ps.pending = <<>>
    /\ ListenerCount(ps.listeners) < MaxListeners
    /\ ps' = [ps EXCEPT !.channels = @ \cup {channel},
                        !.pending = <<[channel |-> channel, callback |-> callback]>>]
    /\ ev' = PEventOf("SUBSCRIBE", channel, 0)
    /\ PsFrame

\* subscribe: this.subscriber.on('message', (ch, message) => { if (ch ===
\* channel) callback(message) }), after which the call has returned
subscribeOn ==
    /\ ps.pending # <<>>
    /\ LET channel == Head(ps.pending).channel
           callback == Head(ps.pending).callback
       IN  /\ ps' = [ps EXCEPT !.pending = <<>>,
                               !.listeners[channel][callback] = @ + 1,
                               !.current[channel][callback] = @ + 1]
           /\ ev' = PEventOf("subscribe", channel, 0)
    /\ PsFrame

\* unsubscribe: await this.subscriber.unsubscribe(channel)
unsubscribe(channel) ==
    /\ ps.pending = <<>>
    /\ ps' = [ps EXCEPT !.channels = @ \ {channel},
                        !.current[channel] = [h \in Handlers |-> 0]]
    /\ ev' = PEventOf("unsubscribe", channel, 0)
    /\ PsFrame

\* publish: the server sends the message to the subscriber connection when
\* it is subscribed to the channel; the connection emits 'message' and each
\* listener calls its callback when the channel is its own.  got: how often
\* each callback was called for this message.  The reply is the number of
\* connections that received it.
publish(channel) ==
    LET arrives == channel \in ps.channels
    IN  /\ ps' = [ps EXCEPT !.got = [h \in Handlers |->
                                        IF arrives THEN ps.listeners[channel][h] ELSE 0]]
        /\ ev' = PEventOf("publish", channel, IF arrives THEN 1 ELSE 0)
        /\ PsFrame

InitPubSub ==
    ps = [channels |-> {}, pending |-> <<>>,
          listeners |-> [c \in Channels |-> [h \in Handlers |-> 0]],
          current |-> [c \in Channels |-> [h \in Handlers |-> 0]],
          got |-> [h \in Handlers |-> 0]]

InitStore ==
    /\ redis = <<>>
    /\ ev = NoEvent

InitLock == lockHeld = [c \in Callers |-> [k \in LockNames |-> -1]]

InitRate ==
    /\ rateLimit \in Limits
    /\ rateWindow \in Windows
    /\ rl = [c \in Clients |-> RlIdle]
    /\ win = [k \in RateNames |-> [left |-> 0, calls |-> 0]]
    /\ life = [k \in RateNames |-> [seen |-> {}, dup |-> FALSE, allowed |-> 0]]
    /\ grants = [k \in RateNames |-> [a \in 0..rateWindow |-> 0]]

InitCache == co = [w \in Workers |-> CoIdle] /\ jumps = 0

InitAside ==
    /\ storeUp = TRUE
    /\ gos = [w \in Workers |-> GosIdle]
    /\ made = 0
    /\ served = <<>>

InitPrisma ==
    /\ pool = [conns |-> [c \in PrismaClients |-> <<>>], currentSchema |-> <<>>]
    /\ wt = [w \in Workers |-> WtIdle]

InitTenants ==
    /\ db = [tenants |-> {}, subs |-> {}, schemas |-> <<>>, made |-> 0]
    /\ ts = [w \in Workers |-> TsIdle]

InitServices == InitAside /\ InitPrisma /\ InitTenants /\ InitAuth /\ InitPubSub

\* The parts of the state a specification does not use stay as constructed.
NoRate == InitRate /\ rateLimit = 1 /\ rateWindow = 1

LockInit == InitStore /\ InitLock /\ NoRate /\ InitCache /\ InitServices

LockNext ==
    \/ \E c \in Callers, k \in LockNames, ttl \in LockTtls : acquireLock(c, k, ttl)
    \/ \E c \in Callers, k \in LockNames : releaseLock(c, k)
    \/ Tick

LockSpec == LockInit /\ [][LockNext]_vars

RateInit == InitStore /\ InitLock /\ InitRate /\ InitCache /\ InitServices

\* Callers that call checkRateLimit concurrently.
RateNext ==
    \/ \E c \in Clients, k \in RateNames : rlIncr(c, k)
    \/ \E c \in Clients : rlExpire(c)
    \/ \E c \in Clients : rlReturn(c)
    \/ Tick

RateSpec == RateInit /\ [][RateNext]_vars

\* Sequential calls: a call starts when no other call is in progress, and
\* the seconds tick between calls.
RateSeqNext ==
    \/ \E c \in Clients, k \in RateNames :
          (\A d \in Clients : rl[d].pc = "idle") /\ rlIncr(c, k)
    \/ \E c \in Clients : rlExpire(c)
    \/ \E c \in Clients : rlReturn(c)
    \/ TickBetweenCalls

RateSeqSpec == RateInit /\ [][RateSeqNext]_vars

\* Concurrent callers, any of which may fail or stop between its increment
\* and its expire.
RateFailNext ==
    \/ RateNext
    \/ \E c \in Clients : rlExpireFails(c)

RateFailSpec == RateInit /\ [][RateFailNext]_vars

CacheInit == InitStore /\ InitLock /\ NoRate /\ InitCache /\ InitServices

Tenants == {<<"a">>, <<"b">>}
Values == {<<"v">>}
Tags == {<<"t">>}
NoTags == <<>>
TagOptions == {NoTags} \cup {<<t>> : t \in Tags}

\* The continuation steps of the calls in progress.
CacheSteps ==
    \/ \E w \in Workers : addToTagsSadd(w)
    \/ \E w \in Workers : addToTagsExpire(w)
    \/ \E w \in Workers : invalidateTagDelKeys(w)
    \/ \E w \in Workers : invalidateTagDelTag(w)

\* Two workers calling CacheService concurrently, each on behalf of one
\* tenant, on the same key name, tag and pattern.
Serves == [w \in Workers |-> IF w = "p" THEN <<"a">> ELSE <<"b">>]

TenantNext ==
    \/ \E w \in Workers, tags \in TagOptions :
          cacheSet(w, <<"k">>, <<"v">>, 0, Serves[w], tags)
    \/ CacheSteps
    \/ \E w \in Workers, t \in Tags : invalidateTag(w, t, Serves[w])
    \/ \E w \in Workers : cacheDelete(w, <<"k">>, Serves[w])
    \/ \E w \in Workers : increment(w, <<"k">>, 1, Serves[w])
    \/ \E w \in Workers : decrement(w, <<"k">>, 1, Serves[w])
    \/ \E w \in Workers : invalidatePattern(w, <<"*">>, Serves[w])
    \/ \E w \in Workers : clearTenantCache(w, Serves[w])
    \/ \E w \in Workers : invalidatePatternDel(w)

TenantSpec == CacheInit /\ [][TenantNext]_vars

\* Tagged entries of one tenant: set (with and without tags, with the default
\* ttl and with CACHE_TTL.WEEK), invalidateTag and delete on two keys.
UserKeys == {<<"k">>, <<"j">>}
TtlOptions == {0, CACHE_TTL_WEEK}
TheTenant == <<"a">>

TagCalls ==
    \/ \E w \in Workers, k \in UserKeys, ttl \in TtlOptions, tags \in TagOptions :
          cacheSet(w, k, <<"v">>, ttl, TheTenant, tags)
    \/ \E w \in Workers, t \in Tags : invalidateTag(w, t, TheTenant)
    \/ \E w \in Workers, k \in UserKeys : cacheDelete(w, k, TheTenant)

\* Concurrent workers, time passing at any point.
CacheNext == TagCalls \/ CacheSteps \/ Expire

CacheSpec == CacheInit /\ [][CacheNext]_vars

\* Sequential calls: a call starts when no other call is in progress, and
\* time passes between calls.
AllIdle == \A w \in Workers : co[w].pc = "idle"
CacheSeqNext == (AllIdle /\ TagCalls) \/ CacheSteps \/ ExpireBetweenCalls

CacheSeqSpec == CacheInit /\ [][CacheSeqNext]_vars

\* set with a tag against invalidateTag of that tag, concurrently, with no
\* time passing and nothing else touching the cache.
TagRaceNext ==
    \/ \E w \in Workers, k \in UserKeys, t \in Tags :
          cacheSet(w, k, <<"v">>, 0, TheTenant, <<t>>)
    \/ \E w \in Workers, t \in Tags : invalidateTag(w, t, TheTenant)
    \/ CacheSteps

TagRaceSpec == CacheInit /\ [][TagRaceNext]_vars

\* Two tags over the same keys: entries are set one call at a time, each
\* under one tag or under both; once the first invalidateTag has begun no
\* entry is set any more, and the workers invalidate the two tags
\* concurrently.
OverlapTags == {<<"t">>, <<"u">>}
TagLists == {<<t>> : t \in OverlapTags} \cup {<< <<"t">>, <<"u">> >>}
SettingUp == IF ev.op = "init" THEN TRUE ELSE ev.op = "set"
NoSetInProgress == \A w \in Workers : co[w].pc \notin {"sadd", "expire"}

OverlapNext ==
    \/ \E w \in Workers, k \in UserKeys, tags \in TagLists :
          AllIdle /\ SettingUp /\ cacheSet(w, k, <<"v">>, 0, TheTenant, tags)
    \/ \E w \in Workers : addToTagsSadd(w)
    \/ \E w \in Workers : addToTagsExpire(w)
    \/ \E w \in Workers, t \in OverlapTags :
          NoSetInProgress /\ invalidateTag(w, t, TheTenant)
    \/ \E w \in Workers : invalidateTagDelKeys(w)
    \/ \E w \in Workers : invalidateTagDelTag(w)

OverlapSpec == CacheInit /\ [][OverlapNext]_vars

\* Bulk invalidation with no concurrent writer: two tenants' workers call
\* one at a time, setting entries (with the default ttl) and counters (no
\* ttl), invalidating by pattern and clearing their tenant's cache; time
\* passes at any point, also between the scan and the del of a call.
Patterns == {<<"*">>, <<"k">>}
PatternCalls ==
    \/ \E w \in Workers, k \in UserKeys : cacheSet(w, k, <<"v">>, 0, Serves[w], NoTags)
    \/ \E w \in Workers : increment(w, <<"n">>, 1, Serves[w])
    \/ \E w \in Workers, p \in Patterns : invalidatePattern(w, p, Serves[w])
    \/ \E w \in Workers : clearTenantCache(w, Serves[w])

PatternNext ==
    \/ (AllIdle /\ PatternCalls)
    \/ \E w \in Workers : invalidatePatternDel(w)
    \/ Expire

PatternSpec == CacheInit /\ [][PatternNext]_vars

\* getOrSet calls of one tenant on one key, with and without tags, with any
\* factory.
AsideCalls ==
    \E w \in Workers, tags \in TagOptions : getOrSet(w, <<"k">>, 0, TheTenant, tags)

AsideSteps ==
    \/ \E w \in Workers, outcome \in FactoryOutcomes : gosFactory(w, outcome)
    \/ \E w \in Workers : gosSet(w)
    \/ \E w \in Workers : gosReturn(w)

\* The continuation of a set with tags (addToTags).
TagSteps ==
    \/ \E w \in Workers : addToTagsSadd(w)
    \/ \E w \in Workers : addToTagsExpire(w)

GosAllIdle == \A w \in Workers : gos[w].pc = "idle"

\* Sequential getOrSet calls, time passing between calls.
AsideSeqNext ==
    \/ (AllIdle /\ GosAllIdle /\ AsideCalls)
    \/ AsideSteps
    \/ TagSteps
    \/ (GosAllIdle /\ ExpireBetweenCalls)

AsideSeqSpec == CacheInit /\ [][AsideSeqNext]_vars

\* Concurrent getOrSet calls while the Redis server comes and goes.
AsideNext == AsideCalls \/ AsideSteps \/ TagSteps \/ StoreDown \/ StoreBack

AsideSpec == CacheInit /\ [][AsideNext]_vars

\* Entries stored with no ttl option, one call at a time: set without ttl
\* (with and without tags), rememberForever with any factory, delete and
\* invalidateTag; time passes at any point, also inside a call.
ForeverCalls ==
    \/ \E w \in Workers, tags \in TagOptions :
          cacheSet(w, <<"k">>, <<"v">>, 0, TheTenant, tags)
    \/ \E w \in Workers : rememberForever(w, <<"f">>, TheTenant)
    \/ \E w \in Workers, t \in Tags : invalidateTag(w, t, TheTenant)
    \/ \E w \in Workers : cacheDelete(w, <<"k">>, TheTenant)

ForeverNext ==
    \/ (AllIdle /\ GosAllIdle /\ ForeverCalls)
    \/ \E w \in Workers, outcome \in FactoryOutcomes : gosFactory(w, outcome)
    \/ \E w \in Workers : gosSet(w)
    \/ CacheSteps
    \/ Expire

ForeverSpec == CacheInit /\ [][ForeverNext]_vars

\* Two workers, each serving one tenant: withTenant calls with either
\* callback, and requests that call setSchema and query the shared client.
PrismaNext ==
    \/ \E w \in Workers, cb \in Callbacks : withTenant(w, Serves[w], cb)
    \/ \E w \in Workers, ok \in BOOLEAN : wtSwitch(w, ok)
    \/ \E w \in Workers : queryStart(w)
    \/ \E w \in Workers, i \in 1..PoolLimit, ok \in BOOLEAN : queryEnd(w, i, ok)
    \/ \E w \in Workers : wtDisconnect(w)
    \/ \E w \in Workers : setSchema(w, Serves[w])

PrismaSpec == CacheInit /\ [][PrismaNext]_vars

\* Slugs callers pass: two valid ones, one too short, one with a capital.
SlugInputs == {<<"a", "c", "m", "e">>, <<"s", "h", "o", "p">>, <<"a", "b">>, <<"A", "c", "m", "e">>}
TransactionOutcomes == {"commit", "tenant", "subscription"}
LookupIds == {NewId(n) : n \in 1..MaxCreates}
\* ctMigrate: no statement fails (0), or the first, or the third does.
FailPoints == {0, 1, 3}

\* Concurrent createTenant and getTenantById calls; any single step of a
\* creation may fail, and the Redis server comes and goes.
DirectoryNext ==
    \/ \E w \in Workers, slug \in SlugInputs : createTenant(w, slug)
    \/ \E w \in Workers, outcome \in TransactionOutcomes : ctTransaction(w, outcome)
    \/ \E w \in Workers, ok \in BOOLEAN : ctCreateSchema(w, ok)
    \/ \E w \in Workers, ok \in BOOLEAN : ctGrant(w, ok)
    \/ \E w \in Workers, failAt \in FailPoints : ctMigrate(w, failAt)
    \/ \E w \in Workers : ctClearCache(w)
    \/ \E w \in Workers : ctGetTenant(w)
    \/ \E w \in Workers, id \in LookupIds : getTenantById(w, id)
    \/ \E w \in Workers : gtFind(w)
    \/ \E w \in Workers : gtCache(w)
    \/ StoreDown
    \/ StoreBack

DirectorySpec == CacheInit /\ [][DirectoryNext]_vars

\* What updateTenant calls set: another slug, the domain a slug derives, a
\* custom domain (outside or under the base domain).
ValidSlugs == {slug \in SlugInputs : isValidTenantSlug(slug)}
CustomHost == <<"custom", ".", "com">>
ShopHost == DomainOf(<<"s", "h", "o", "p">>)
UpdateInputs ==
    {<<"slug", slug>> : slug \in ValidSlugs}
        \cup {<<"domain", ShopHost>>, <<"customDomain", CustomHost>>,
              <<"customDomain", ShopHost>>}

\* The steps of a createTenant whose provisioning succeeds, and of the
\* lookups the calls end with.
ProvisionSteps ==
    \/ \E w \in Workers : ctCreateSchema(w, TRUE)
    \/ \E w \in Workers : ctGrant(w, TRUE)
    \/ \E w \in Workers : ctMigrate(w, 0)
LookupSteps ==
    \/ \E w \in Workers : ctClearCache(w)
    \/ \E w \in Workers : ctGetTenant(w)
    \/ \E w \in Workers : gtFind(w)
    \/ \E w \in Workers : gtCache(w)

\* Concurrent createTenant calls (also with the same slug) and updateTenant
\* calls.
RegistryNext ==
    \/ \E w \in Workers, slug \in ValidSlugs : createTenant(w, slug)
    \/ \E w \in Workers, outcome \in TransactionOutcomes : ctTransaction(w, outcome)
    \/ \E w \in Workers, id \in LookupIds, u \in UpdateInputs :
          updateTenant(w, id, u[1], u[2])
    \/ ProvisionSteps
    \/ LookupSteps

RegistrySpec == CacheInit /\ [][RegistryNext]_vars

\* createTenantSchema called again and again for the same tenants, any of
\* its statements failing, while the tenants store rows in their tables.
ProvisionNext ==
    \/ \E w \in Workers, id \in LookupIds : createTenantSchema(w, id)
    \/ \E w \in Workers, ok \in BOOLEAN : ctCreateSchema(w, ok)
    \/ \E w \in Workers, ok \in BOOLEAN : ctGrant(w, ok)
    \/ \E w \in Workers, failAt \in FailPoints : ctMigrate(w, failAt)
    \/ \E id \in LookupIds : tenantWrites(id)

ProvisionSpec == CacheInit /\ [][ProvisionNext]_vars

\* Tenants are created and provisioned, store rows, are looked up and are
\* deleted through TenantService.delete, concurrently.
SoftDeleteNext ==
    \/ \E w \in Workers, slug \in ValidSlugs : createTenant(w, slug)
    \/ \E w \in Workers : ctTransaction(w, "commit")
    \/ ProvisionSteps
    \/ LookupSteps
    \/ \E id \in LookupIds : tenantWrites(id)
    \/ \E w \in Workers, id \in LookupIds : getTenantById(w, id)
    \/ \E w \in Workers, id \in LookupIds : tenantDelete(w, id)
    \/ \E w \in Workers : tdClearCache(w)

SoftDeleteSpec == CacheInit /\ [][SoftDeleteNext]_vars

\* Every operation that derives a tenant's namespace, one call at a time,
\* on tenants that are created and then renamed or re-homed through
\* updateTenant.
NamespaceCalls ==
    \/ \E w \in Workers, slug \in ValidSlugs : createTenant(w, slug)
    \/ \E w \in Workers, id \in LookupIds, u \in UpdateInputs :
          updateTenant(w, id, u[1], u[2])
    \/ \E w \in Workers, id \in LookupIds : getTenantConfig(w, id)
    \/ \E w \in Workers, id \in LookupIds : deleteTenantSchema(w, id)
    \/ \E w \in Workers, id \in LookupIds : setSchema(w, id)
    \/ \E w \in Workers, id \in LookupIds : withTenant(w, id, CallbackSingle)

NoCallInProgress == \A w \in Workers : ts[w].pc = "idle" /\ wt[w].pc = "idle"

NamespaceNext ==
    \/ (NoCallInProgress /\ NamespaceCalls)
    \/ \E w \in Workers : ctTransaction(w, "commit")
    \/ ProvisionSteps
    \/ LookupSteps
    \/ \E w \in Workers : wtSwitch(w, TRUE)
    \/ \E w \in Workers : queryStart(w)
    \/ \E w \in Workers, i \in 1..PoolLimit : queryEnd(w, i, TRUE)
    \/ \E w \in Workers : wtDisconnect(w)

NamespaceSpec == CacheInit /\ [][NamespaceNext]_vars

\* Readers of a tenant against its updates: tenants are created, then
\* updateTenant and getTenantById calls on them run concurrently.
StaleNext ==
    \/ \E w \in Workers, slug \in ValidSlugs : createTenant(w, slug)
    \/ \E w \in Workers : ctTransaction(w, "commit")
    \/ ProvisionSteps
    \/ LookupSteps
    \/ \E w \in Workers, id \in LookupIds : getTenantById(w, id)
    \/ \E w \in Workers, id \in LookupIds, u \in UpdateInputs :
          updateTenant(w, id, u[1], u[2])

StaleSpec == CacheInit /\ [][StaleNext]_vars

\* Limit checks on tenants that exist and on ids no tenant has, for every
\* subscription a tenant record can carry, one check at a time, while
\* tenants are created one after the other.
TsAllIdle == \A w \in Workers : ts[w].pc = "idle"
NoLimitCheck == \A w \in Workers : ts[w].op # "checkTenantLimit"
LimitNext ==
    \/ \E w \in Workers, slug \in ValidSlugs : TsAllIdle /\ createTenant(w, slug)
    \/ \E w \in Workers : ctTransaction(w, "commit")
    \/ ProvisionSteps
    \/ LookupSteps
    \/ \E w \in Workers, id \in LookupIds, resource \in Resources,
          current \in 0..MaxCurrent, sub \in Subscriptions :
          NoLimitCheck /\ checkTenantLimit(w, id, resource, current, sub)

LimitSpec == CacheInit /\ [][LimitNext]_vars

\* Sessions: created, read (which refreshes them) and destroyed by
\* concurrent workers, time passing at any point.
AuAllIdle == \A w \in Workers : au[w].pc = "idle"
SessionNext ==
    \/ \E w \in Workers, u \in Users : createSession(w, u)
    \/ \E w \in Workers, sessionId \in IssuedTokens : getSession(w, sessionId)
    \/ \E w \in Workers : gsTouch(w)
    \/ \E w \in Workers, sessionId \in IssuedTokens : destroySession(w, sessionId)
    \/ Expire

SessionSpec == CacheInit /\ [][SessionNext]_vars

\* Refresh tokens: issued (also twice within one second), presented and
\* revoked by concurrent workers, time passing at any point.  A caller
\* presents a token that was issued, or one whose signature does not hold.
RefreshNext ==
    \/ \E w \in Workers, u \in Users, sameSecond \in BOOLEAN : generateTokens(w, u, sameSecond)
    \/ \E w \in Workers, u \in Users, iat \in 1..MaxIssued :
          iat <= audit.iat[u] /\ verifyRefreshToken(w, RefreshToken(u, iat))
    \/ \E w \in Workers : verifyRefreshToken(w, ForgedToken)
    \/ \E w \in Workers, u \in Users : revokeRefreshToken(w, u)
    \/ Expire

RefreshSpec == CacheInit /\ [][RefreshNext]_vars

\* Email verification tokens: issued and presented by concurrent workers,
\* time passing at any point.
Emails == {<<"e">>}
EmailNext ==
    \/ \E w \in Workers, email \in Emails, tenantId \in Tenants :
          generateEmailVerificationToken(w, email, tenantId)
    \/ \E w \in Workers, token \in IssuedTokens : verifyEmailToken(w, token)
    \/ \E w \in Workers : veDel(w)
    \/ Expire

EmailSpec == CacheInit /\ [][EmailNext]_vars

\* 2FA codes: generated, presented (right and wrong) and verified by
\* concurrent workers, time passing at any point.
TwoFaNext ==
    \/ \E w \in Workers, u \in Users, code \in Codes : generate2FACode(w, u, code)
    \/ \E w \in Workers, u \in Users, code \in Codes : verify2FACode(w, u, code)
    \/ \E w \in Workers : vcDel(w)
    \/ Expire

TwoFaSpec == CacheInit /\ [][TwoFaNext]_vars

\* Pub/sub: subscribe and unsubscribe calls one after the other, messages
\* published at any point.
PubSubNext ==
    \/ \E channel \in Channels, callback \in Handlers : subscribe(channel, callback)
    \/ subscribeOn
    \/ \E channel \in Channels : unsubscribe(channel)
    \/ \E channel \in Channels : publish(channel)

PubSubSpec == CacheInit /\ [][PubSubNext]_vars

\* Hosts of requests: the subdomains of the two slugs, a host outside the
\* base domain, and the base domain itself.
Hosts == {DomainOf(slug) : slug \in ValidSlugs} \cup {CustomHost, <<"base">>}

\* Requests are resolved while tenants are created and updated.
ResolveNext ==
    \/ RegistryNext
    \/ \E w \in Workers, host \in Hosts, result \in LookupIds \cup {NotFound} :
          resolveTenant(w, host, BaseDomain, result)

ResolveSpec == CacheInit /\ [][ResolveNext]_vars

\* The same with tenants that are created and never updated.
ResolveFreshNext ==
    \/ \E w \in Workers, slug \in ValidSlugs : createTenant(w, slug)
    \/ \E w \in Workers, outcome \in TransactionOutcomes : ctTransaction(w, outcome)
    \/ ProvisionSteps
    \/ LookupSteps
    \/ \E w \in Workers, host \in Hosts, result \in LookupIds \cup {NotFound} :
          resolveTenant(w, host, BaseDomain, result)

ResolveFreshSpec == CacheInit /\ [][ResolveFreshNext]_vars

(***************************************************************************)
(* Claims about the distributed lock (checked under LockSpec)              *)
(***************************************************************************)
Holders(key) == {c \in Callers : Holds(c, key)}

\* C1: for every lock key at most one caller holds the lock at any time, a
\* caller holding it from its successful acquireLock until its own
\* releaseLock or the end of its ttl.
C1_AtMostOneHolder == \A k \in LockNames : Cardinality(Holders(k)) <= 1

\* C2: an acquireLock on a key that is still live returns false and leaves
\* the keyspace (the stored lock and its expiry) as it was; an acquireLock on
\* a key that is not there (never taken, released, or its ttl elapsed)
\* returns true and stores the lock with the ttl asked for.
C2_AcquireLiveFails ==
    [][ev'.op = "acquireLock" =>
          LET lk == LockKey(ev'.key)
          IN  IF RedisExists(redis, lk)
              THEN ~ev'.ok /\ redis' = redis
              ELSE ev'.ok /\ RedisExists(redis', lk) /\ redis'[lk].ttl = ev'.arg]_vars

\* A caller's ttl ran out without a release, the next acquireLock (of a
\* second caller) succeeded, and a further acquireLock (of a third caller) has
\* just returned false while that lock is live.
C2_Witness ==
    \E k \in LockNames, a, b \in Callers :
        /\ ev.op = "acquireLock" /\ ev.key = k /\ ~ev.ok
        /\ a # b /\ ev.who \notin {a, b}
        /\ lockHeld[a][k] = 0
        /\ Holds(b, k) /\ RedisExists(redis, LockKey(k))

\* C3: releaseLock removes the lock key whoever acquired it: after any
\* releaseLock the key is absent, and the call returns true exactly when the
\* key was there, also when the lock there belongs to another caller.
C3_ReleaseUnconditional ==
    [][ev'.op = "releaseLock" =>
          LET lk == LockKey(ev'.key)
          IN  /\ ~RedisExists(redis', lk)
              /\ ev'.ok = RedisExists(redis, lk)]_vars

\* Caller A, whose ttl had run out, has just released with result true while
\* caller B holds the lock with ttl left: the key is gone and free to take.
C3_Witness ==
    \E k \in LockNames, b \in Callers :
        /\ ev.op = "releaseLock" /\ ev.key = k /\ ev.ok /\ ev.who # b
        /\ Holds(b, k)
        /\ ~RedisExists(redis, LockKey(k))

\* The third acquireLock has succeeded before B's ttl elapsed.
C3_ThirdAcquire ==
    \E k \in LockNames, b \in Callers :
        /\ ev.op = "acquireLock" /\ ev.key = k /\ ev.ok /\ ev.who # b
        /\ Holds(b, k)

(***************************************************************************)
(* Claims about the rate limiter                                           *)
(***************************************************************************)
RECURSIVE SumTo(_, _)
SumTo(f, n) == IF n < 0 THEN 0 ELSE f[n] + SumTo(f, n - 1)

\* Allowed calls whose increment lies in the last rateWindow seconds.
RecentGrants(key) == SumTo(grants[key], rateWindow)

\* C4 (RateSeqSpec): with sequential calls, the n-th call of a window (the
\* window opened by the first call made when none was open, rateWindow
\* seconds long) is given the count n and is allowed exactly when n <= limit;
\* so the first call after the window has elapsed counts 1 and is allowed.
C4_SequentialWindow ==
    ev.op = "checkRateLimit" =>
        /\ ev.arg = win[ev.key].calls
        /\ ev.ok = (win[ev.key].calls <= rateLimit)

\* The first call after a window in which the limit was used up has just
\* returned allowed with the count 1.
C4_Witness ==
    /\ ev.op = "checkRateLimit" /\ ev.ok /\ ev.arg = 1
    /\ rateLimit = MaxLimit
    /\ grants[ev.key][rateWindow] = rateLimit

\* A call beyond the limit has just been refused inside the window.
C4_Refused ==
    /\ ev.op = "checkRateLimit" /\ ~ev.ok /\ ev.arg = rateLimit + 1
    /\ win[ev.key].left > 0

\* C5 (RateSpec): for concurrent calls on one key, during one lifetime of the
\* counter key at most limit calls are allowed and no two calls are given the
\* same count.
C5_AtMostLimitAllowed ==
    \A k \in RateNames : life[k].allowed <= rateLimit /\ ~life[k].dup

\* Two calls are in progress at once, the limit is used up and a further
\* call was counted beyond it.
C5_Witness ==
    \E k \in RateNames :
        /\ life[k].allowed = rateLimit
        /\ Cardinality(life[k].seen) > rateLimit
        /\ \E c, d \in Clients : c # d /\ rl[c].pc = "ttl" /\ rl[d].pc = "ttl"

\* C6 (RateSpec): in any span of at most rateWindow seconds, at most
\* 2 x limit calls on one key are allowed.
C6_BurstAtMostTwiceLimit ==
    \A k \in RateNames : RecentGrants(k) <= 2 * rateLimit

\* The burst at a window boundary: 2 x limit calls allowed within rateWindow
\* seconds.
C6_Witness ==
    \E k \in RateNames : RecentGrants(k) = 2 * rateLimit /\ rateLimit = MaxLimit

(***************************************************************************)
(* Claims about CacheService                                               *)
(***************************************************************************)
\* The key names callers read: the entry name in use and the tag-set name.
ObservedKeys == {<<"k">>, <<"tag:", "t">>}

\* Key names a caller may pass, among them names shaped like a prefixed key.
KeyNames == ObservedKeys \cup {generateKey(k, tn) : k \in ObservedKeys, tn \in Tenants}

\* C7 (TenantSpec): a step of any CacheService call made with tenant A leaves
\* get(k, {tenant: B}) and exists(k, B) as they were, for every key k and every
\* other tenant B; and the effective keys of two tenants never coincide.
C7_TenantIsolation ==
    [][ev'.tenant \in Tenants =>
          /\ \A tb \in Tenants \ {ev'.tenant}, k \in ObservedKeys :
                /\ CacheGet(k, tb)' = CacheGet(k, tb)
                /\ CacheExists(k, tb)' = CacheExists(k, tb)
          /\ \A tb \in Tenants \ {ev'.tenant}, ka, kb \in KeyNames :
                generateKey(ka, ev'.tenant) # generateKey(kb, tb)]_vars

\* clearTenantCache of tenant a has just deleted a's keys while tenant b's
\* entry under the same key name is still there.
C7_Witness ==
    /\ ev.op = "clearTenantCache" /\ ev.tenant = <<"a">> /\ ev.ret > 0
    /\ ~CacheExists(<<"k">>, <<"a">>)
    /\ CacheGet(<<"k">>, <<"b">>).kind = "value"

\* An entry stored by set with tags is in the tag-set of each of its tags.
InItsTagSets(key) ==
    \A tagKey \in redis[key].tags :
        IF tagKey \in DOMAIN redis
        THEN redis[tagKey].t = "set" /\ key \in redis[tagKey].m
        ELSE FALSE

\* C8 (CacheSpec): in every reachable state every existing entry that was
\* stored by set with tags is a member of the tag-set of each of its tags.
C8_TaggedEntryInTagSets == \A key \in DOMAIN redis : InItsTagSets(key)

\* C8 restricted to the states in which no call is in progress.
C8_BetweenCalls == AllIdle => C8_TaggedEntryInTagSets

\* C9 (CacheSeqSpec): when invalidateTag(t, tenant) returns, no entry stored
\* with tag t remains, the tag-set is gone, and the number returned is the
\* number of entries the call deleted.
C9_InvalidateTagClears ==
    ev.op = "invalidateTag" /\ ev.ok =>
        /\ \A key \in DOMAIN redis : ev.key \notin redis[key].tags
        /\ ev.key \notin DOMAIN redis
        /\ ev.ret = ev.at

\* C10 (TagRaceSpec): once a set with tag t and an invalidateTag(t) that ran
\* concurrently have both completed, the entry is absent or still a member
\* of the tag-set.
C10_NoOrphanAfterRace == AllIdle => \A key \in DOMAIN redis : InItsTagSets(key)

(***************************************************************************)
(* Claims about the cache-aside calls                                      *)
(***************************************************************************)
\* C11 (AsideSeqSpec): a sequential getOrSet that begins while the entry an
\* earlier getOrSet computed is still live does not invoke its factory and
\* returns the value that earlier call returned, whatever that value is.
C11_FactoryOnce ==
    ev.op = "getOrSet" /\ ev.arg = 1 =>
        /\ ev.ok
        /\ ev.at = 0
        /\ ev.val = served[ev.key]

\* C12 (AsideSeqSpec): a getOrSet whose factory throws fails with the
\* factory's error and leaves the keyspace as it was when the call began (no
\* entry written, no tag-set changed); the key is still a miss, so the next
\* getOrSet invokes its factory again.
C12_FactoryFailureNotCached ==
    [][ev'.err = "factory" =>
          \E w \in Workers :
              /\ gos[w].pc = "factory" /\ gos'[w] = GosIdle
              /\ ev'.op = gos[w].op /\ ~ev'.ok
              /\ redis' = gos[w].pre
              /\ getJSON(redis', gos[w].key) = JsNull]_vars

\* Two getOrSet calls in a row failed in their factory: the second invoked
\* its factory again, and nothing is cached.
C12_Witness ==
    /\ ev.op = "getOrSet" /\ ev.err = "factory"
    /\ made = 2
    /\ redis = <<>>

\* C13 (AsideSpec): no getOrSet call fails because the store rejected its
\* get or its set; the call returns what its factory computed.
C13_OutageStillReturns == ev.op = "getOrSet" => ev.err # "store"

\* C15 (ForeverSpec): an entry stored with no ttl option is never removed by
\* the passing of time.
C15_NoTtlNeverExpires ==
    [][ev'.op = "time" =>
          \A k \in DOMAIN redis : redis[k].t # "set" => k \in DOMAIN redis']_vars

(***************************************************************************)
(* Claims about PrismaService (checked under PrismaSpec)                   *)
(***************************************************************************)
\* C16: every query issued by the callback of withTenant(A, fn) runs with
\* the search_path of tenant A's namespace.
C16_CallbackInOwnNamespace ==
    ev.op = "tenantQuery" => ev.key = generateSchemaName(ev.tenant)

C18_SharedClientOwnNamespace ==
    ev.op = "sharedQuery" => ev.key = generateSchemaName(ev.tenant)

(***************************************************************************)
(* Claims about TenantService (checked under DirectorySpec)                *)
(***************************************************************************)
\* C14: no getTenantById call fails because the cache rejected its read or
\* its write; the call returns the tenant read from the database, or null.
C14_LookupSurvivesOutage == ev.op = "getTenantById" => ev.err # "store"

\* C19: when createTenant fails in creating the tenant row, in creating the
\* subscription row or in provisioning the namespace, no tenant row, no
\* subscription row and no namespace of that tenant exists afterwards.
C19_FailedCreateLeavesNothing ==
    ev.op = "createTenant" /\ ev.err \in {"tenant", "subscription", "provision"} =>
        /\ ~HasRow(ev.tenant)
        /\ ev.tenant \notin db.subs
        /\ generateSchemaName(ev.tenant) \notin DOMAIN db.schemas

\* C20: a createTenant that begins when a tenant with its slug exists fails
\* with the conflict error at its lookup and changes nothing in the database:
\* it never reaches the transaction or the provisioning.
C20_SameSlugConflicts ==
    /\ [](\A w \in Workers : ts[w].op = "createTenant" => ts[w].taken = 0)
    /\ [][ev'.op = "createTenant" /\ ev'.arg = 1 =>
            ev'.err = "conflict" /\ db' = db]_vars

\* A tenant was created and provisioned, and a second createTenant with its
\* slug has just failed with the conflict: one row, one namespace.
C20_Witness ==
    /\ ev.op = "createTenant" /\ ev.err = "conflict"
    /\ Cardinality(db.tenants) = 1 /\ Cardinality(db.subs) = 1
    /\ \E row \in db.tenants :
          /\ row.slug = ev.key
          /\ DOMAIN db.schemas = {generateSchemaName(row.id)}
          /\ db.schemas[generateSchemaName(row.id)].objects = SchemaObjects

(***************************************************************************)
(* Further claims about the rate limiter                                   *)
(***************************************************************************)
\* C27 (RateSpec): a call that counted n returns allowed = (n <= limit) and
\* remaining = max(0, limit - n): never negative, 0 when refused, limit - n
\* when allowed; and the counts handed out while the counter key exists are
\* 1, 2, 3, ... without gap or repetition, so each allowed call lowers
\* remaining by exactly 1.
C27_AllowedAndRemaining ==
    /\ ev.op = "checkRateLimit" =>
          /\ ev.ok = (ev.arg <= rateLimit)
          /\ ev.ret >= 0
          /\ ev.ret = (IF rateLimit - ev.arg > 0 THEN rateLimit - ev.arg ELSE 0)
          /\ ~ev.ok => ev.ret = 0
          /\ ev.ok => ev.ret = rateLimit - ev.arg
    /\ \A k \in RateNames :
          ~life[k].dup /\ life[k].seen = 1..Cardinality(life[k].seen)

\* A call two beyond the limit has just been refused with remaining 0, after
\* an allowed call in the same lifetime of the counter.
C27_Witness ==
    /\ ev.op = "checkRateLimit" /\ ~ev.ok /\ ev.ret = 0
    /\ rateLimit - ev.arg < -1
    /\ life[ev.key].allowed = rateLimit

\* C28 (RateSpec): only a call whose increment returned 1 arms the expiry,
\* and no step of any call changes the time left of a counter whose expiry
\* is armed.
C28_ExpiryNeverRearmed ==
    /\ [][ev'.op = "expire" => rl[ev'.who].current = 1]_vars
    /\ [][ev'.op # "time" =>
            \A k \in RateNames :
                (RateLimitKey(k) \in DOMAIN redis /\ redis[RateLimitKey(k)].ttl # NoTtl) =>
                    /\ RateLimitKey(k) \in DOMAIN redis'
                    /\ redis'[RateLimitKey(k)].ttl = redis[RateLimitKey(k)].ttl]_vars

\* A later increment of a window has just been applied to a counter whose
\* expiry has already run down by a second.
C28_Witness ==
    /\ ev.op = "incr" /\ ev.arg > 1
    /\ RateLimitKey(ev.key) \in DOMAIN redis
    /\ redis[RateLimitKey(ev.key)].ttl # NoTtl
    /\ redis[RateLimitKey(ev.key)].ttl < rateWindow

\* C29 (RateFailSpec): whenever no call stands between its increment and its
\* expire, every rate-limit counter that exists has an expiry armed.
C29_CounterAlwaysExpires ==
    (\A c \in Clients : rl[c].pc # "expire") =>
        \A k \in RateNames :
            RateLimitKey(k) \in DOMAIN redis => redis[RateLimitKey(k)].ttl # NoTtl

(***************************************************************************)
(* Further claims about CacheService                                       *)
(***************************************************************************)
\* C30 (CacheSpec): the expire step that follows each addition to a tag-set
\* leaves the tag-set, if it still exists, with CACHE_TTL.DAY seconds to
\* live; a tag-set never has more than that left; and a tag-set without
\* expiry exists only while the set call that added to it stands before its
\* expire step.
C30_TagSetRefreshedToOneDay ==
    /\ [][\A w \in Workers :
            (co[w].pc = "expire" /\ co'[w] # co[w]) =>
                (co[w].tagKey \in DOMAIN redis' =>
                    redis'[co[w].tagKey].ttl = CACHE_TTL_DAY)]_vars
    /\ [](\A k \in DOMAIN redis :
            redis[k].t = "set" =>
                /\ redis[k].ttl <= CACHE_TTL_DAY
                /\ redis[k].ttl = NoTtl =>
                      \E w \in Workers : co[w].pc = "expire" /\ co[w].tagKey = k)

\* A set with tag t has just completed on a tag-set that already held another
\* entry, stored with the tag before time passed: the tag-set has a full day
\* again.
C30_Witness ==
    /\ ev.op = "set" /\ ev.ok /\ jumps = 1 /\ (\A w \in Workers : co[w].pc = "idle")
    /\ \E t \in Tags :
          LET tagKey == TagKey(t, TheTenant)
          IN  /\ tagKey \in DOMAIN redis
              /\ redis[tagKey].ttl = CACHE_TTL_DAY
              /\ Cardinality(redis[tagKey].m) = 2
              /\ \E key \in redis[tagKey].m :
                    /\ key \in DOMAIN redis
                    /\ tagKey \in redis[key].tags
                    /\ redis[key].ttl = CACHE_TTL_WEEK - CACHE_TTL_MEDIUM

\* A key that begins with the tenant's prefix.
CarriesPrefix(key, tenantId) ==
    LET prefix == generateTenantCachePrefix(tenantId)
    IN  IF Len(key) >= Len(prefix) THEN SubSeq(key, 1, Len(prefix)) = prefix ELSE FALSE

\* C26 (PatternSpec): when clearTenantCache(T) or invalidatePattern(p, T)
\* completes with no other call in progress, no key matching its pattern
\* remains (for clearTenantCache: no key carrying T's prefix), and the number
\* returned is the number of keys the call removed from the keyspace.
C26_BulkDeleteByScan ==
    [][ev'.op \in {"clearTenantCache", "invalidatePattern"} =>
          /\ ev'.ok
          /\ \A key \in DOMAIN redis' : ~Match(ev'.key, key)
          /\ ev'.op = "clearTenantCache" =>
                \A key \in DOMAIN redis' : ~CarriesPrefix(key, ev'.tenant)
          /\ ev'.ret = Cardinality((DOMAIN redis) \ (DOMAIN redis'))]_vars

\* clearTenantCache has just deleted three keys of its tenant (two entries and
\* a counter) and returned 3, and a key of the other tenant is still there.
C26_Witness ==
    /\ ev.op = "clearTenantCache" /\ ev.ret = 3
    /\ \A key \in DOMAIN redis : ~CarriesPrefix(key, ev.tenant)
    /\ redis # <<>>

C22_ProvisioningIdempotent ==
    /\ [](ev.err # "exists")
    /\ [](ev.op = "createTenantSchema" /\ ev.ok =>
            /\ ev.key \in DOMAIN db.schemas
            /\ db.schemas[ev.key].objects = SchemaObjects)
    /\ [][\A name \in DOMAIN db.schemas :
            /\ name \in DOMAIN db'.schemas
            /\ db.schemas[name].objects \subseteq db'.schemas[name].objects
            /\ ev'.op # "insert" => db'.schemas[name].rows = db.schemas[name].rows]_vars

\* createTenantSchema has just succeeded on a namespace that existed when the
\* call began and holds a row of the tenant's.
C22_Witness ==
    /\ ev.op = "createTenantSchema" /\ ev.ok /\ ev.arg = 1
    /\ db.schemas[ev.key].rows = 1
    /\ db.schemas[ev.key].objects = SchemaObjects

\* The tenant rows with their status left out.
Unflagged(rows) ==
    {[id |-> row.id, slug |-> row.slug, domain |-> row.domain,
      customDomain |-> row.customDomain] : row \in rows}

\* C23 (SoftDeleteSpec): every step of TenantService.delete leaves the
\* subscription rows and the namespaces (tables, indexes, rows) as they were
\* and changes nothing of the tenant rows but a status; its first step sets
\* the tenant's status to deleted, no step of it is deleteTenantSchema, and
\* its last step leaves the tenant's cache entry absent.
C23_DeleteIsSoft ==
    [][\A w \in Workers :
          (ts'[w] # ts[w] /\ (ts[w].op = "delete" \/ ts'[w].op = "delete")) =>
              /\ db'.subs = db.subs
              /\ db'.schemas = db.schemas
              /\ Unflagged(db'.tenants) = Unflagged(db.tenants)
              /\ ev'.op # "deleteTenantSchema"
              /\ ts[w].op # "delete" =>
                    \E row \in db'.tenants : row.id = ts'[w].id /\ row.status = "deleted"
              /\ ts[w].op = "delete" => db' = db
              /\ (ev'.op = "delete" /\ ev'.ok) => TenantKey(ev'.tenant) \notin DOMAIN redis']_vars

\* delete has just completed on a provisioned tenant that has stored a row:
\* the tenant row (deleted), its subscription and its namespace are there.
C23_Witness ==
    /\ ev.op = "delete" /\ ev.ok
    /\ \E row \in db.tenants : row.id = ev.tenant /\ row.status = "deleted"
    /\ ev.tenant \in db.subs
    /\ generateSchemaName(ev.tenant) \in DOMAIN db.schemas
    /\ db.schemas[generateSchemaName(ev.tenant)].objects = SchemaObjects
    /\ db.schemas[generateSchemaName(ev.tenant)].rows = 1

\* The steps that name a tenant's namespace: CREATE SCHEMA of createTenant,
\* the schemaName of getTenantConfig, DROP SCHEMA of deleteTenantSchema, and
\* the SET search_path of setSchema and of withTenant.
NamespaceOps == {"createSchema", "getTenantConfig", "deleteTenantSchema", "setSchema", "switch"}

DomainPath(host) == getTenantByDomain(host)
SlugPath(host) ==
    IF extractTenantFromHost(host) = <<>> THEN {NotFound}
    ELSE getTenantBySlug(extractTenantFromHost(host))

\* C25 (ResolveSpec): resolveTenant returns a tenant the domain match yields
\* when it yields one, else the tenant the slug extraction yields, and null
\* only when neither yields a tenant.
C25_CustomDomainFirst ==
    ev.op = "resolveTenant" =>
        IF DomainPath(ev.key) # {NotFound} THEN ev.tenant \in DomainPath(ev.key)
        ELSE ev.tenant \in SlugPath(ev.key)

\* C31 (OverlapSpec): concurrent invalidateTag calls on two tags that share
\* member keys never fail; once invalidateTag of a tag has returned, its
\* tag-set stays absent, and so does every key that was a member of it.
OverlapTagKeys == {TagKey(t, TheTenant) : t \in OverlapTags}
OverlapKeys == {generateKey(k, TheTenant) : k \in UserKeys}
Invalidated(tagKey) == ev.op = "invalidateTag" /\ ev.key = tagKey
C31_OverlappingInvalidations ==
    /\ [](ev.op = "invalidateTag" => ev.ok)
    /\ \A tagKey \in OverlapTagKeys :
          [](Invalidated(tagKey) => [](tagKey \notin DOMAIN redis))
    /\ \A tagKey \in OverlapTagKeys, key \in OverlapKeys :
          [](key \in RedisSmembers(redis, tagKey) =>
                [](Invalidated(tagKey) => [](key \notin DOMAIN redis)))

\* invalidateTag of one tag has returned after deleting none of the keys it
\* read: both keys and the other tag's set, all there when it began, were
\* deleted meanwhile by the other worker; nothing is left.
C31_Witness ==
    /\ ev.op = "invalidateTag" /\ ev.ok
    /\ ev.key = TagKey(<<"u">>, TheTenant)
    /\ ev.ret = 0 /\ ev.at = Cardinality(OverlapKeys) + 1
    /\ AllIdle
    /\ DOMAIN redis = {}

\* C32 (StaleSpec): when no TenantService call is in progress, a cached
\* tenant record is the record of the tenant's current row.
C32_CacheMatchesRow ==
    (\A w \in Workers : ts[w].pc = "idle") =>
        \A row \in db.tenants :
            LET cached == getJSON(redis, TenantKey(row.id))
            IN  Truthy(cached) => cached = TenantValue(row)

\* C33 (SessionSpec): when no AuthService call is in progress, no session
\* that destroySession was called for is in the store.
C33_DestroyedSessionStaysGone ==
    AuAllIdle => \A sessionId \in audit.destroyed : SessionKey(sessionId) \notin DOMAIN redis

\* C34 (RefreshSpec): verifyRefreshToken accepts a token only if it is the
\* one the latest generateTokens issued to its user and no revocation
\* followed; every other token issued to the user would be rejected.
C34_OnlyLatestRefreshToken ==
    /\ (ev.op = "verifyRefreshToken" /\ ev.ok) => ev.key = audit.latest[ev.tenant]
    /\ \A u \in Users, iat \in 1..MaxIssued :
          (iat <= audit.iat[u] /\ RefreshToken(u, iat) # audit.latest[u]) =>
              ~RefreshAccepted(redis, RefreshToken(u, iat))

\* A token issued earlier is presented after a newer one was issued to the
\* user, and rejected, while the newer one would be accepted.
C34_Witness ==
    /\ ev.op = "verifyRefreshToken" /\ ~ev.ok
    /\ SignatureHolds(ev.key)
    /\ audit.latest[ev.tenant] # <<>>
    /\ ev.key # audit.latest[ev.tenant]
    /\ RefreshAccepted(redis, audit.latest[ev.tenant])

\* C35 (EmailSpec): for each email verification token, at most one
\* verifyEmailToken call has returned the stored email and tenant id.
C35_EmailTokenSingleUse ==
    \A token \in RandomTokens : audit.verified[token] <= 1

\* C36 (TwoFaSpec): for each code generated for a user at most one
\* verify2FACode call has returned true; a code that does not match leaves
\* the store as it is; only the code generated last for a user matches.
C36_TwoFaCodeSingleUse ==
    /\ [](\A u \in Users, g \in 0..MaxCodes : audit.accepted[u][g] <= 1)
    /\ [][(ev'.op = "verify2FACode" /\ ~ev'.ok) => redis' = redis]_vars
    /\ [](\A u \in Users, code \in Codes :
             CodeMatches(redis, u, code) => code = audit.code[u])

\* C37 (PubSubSpec): a message published while no subscribe call is in
\* progress calls each callback once per subscription of the channel made
\* since the channel's last unsubscribe, and calls no callback of a channel
\* that was unsubscribed.
C37_OncePerSubscription ==
    (ev.op = "publish" /\ ps.pending = <<>>) =>
        \A h \in Handlers : ps.got[h] = ps.current[ev.key][h]


\* C38: checkTenantLimit returns allowed = true only when the tenant exists
\* with a subscription plan whose limit for the resource is 'unlimited' or a
\* number strictly above current; when the tenant does not exist or has no
\* subscription plan it returns allowed = false with limit 0; when the plan
\* defines no limit for the resource it returns allowed = false.
C38_LimitDecision ==
    [][\A w \in Workers :
          (ts[w].op = "checkTenantLimit" /\ ts'[w].pc = "idle"
             /\ ev'.op = "checkTenantLimit" /\ ev'.err = "none") =>
          LET call == ts[w].arg
              exists == HasRow(ts[w].id)
              hasPlan == call.sub.subscription /\ call.sub.plan
              limit == call.sub.limits[call.resource]
          IN  /\ ev'.ok =>
                    /\ exists /\ hasPlan
                    /\ IF limit = Unlimited THEN TRUE
                       ELSE limit.kind = "number" /\ call.current < limit.n
              /\ ~(exists /\ hasPlan) => ~ev'.ok /\ ev'.val = JsNumber(0)
              /\ (exists /\ hasPlan /\ limit = JsUndefined) => ~ev'.ok]_vars
C38_Witness ==
    /\ ev.op = "checkTenantLimit" /\ ev.err = "none"
    /\ ~ev.ok /\ ev.val = JsNumber(MaxPlanLimit) /\ ev.arg = MaxPlanLimit
    /\ HasRow(ev.tenant)

====
